---------------------------- MODULE Spec2Model ----------------------------
(***************************************************************************)
(* A model of paper2gal: the script normalizer and the script generator   *)
(* of utils/script_engine.py, and the prefetch coordinator and playback   *)
(* state machine of app.py.                                               *)
(*                                                                         *)
(* Strings are sequences of symbols.  A symbol is one character (" ",     *)
(* "A", "1", "(", ".") or a word of three or more non-space characters    *)
(* ("Foo", "quiz", "char_happy") that no pattern of the code can split:   *)
(* every pattern of script_engine.py looks at single letters, at one or   *)
(* two digits, at brackets, at punctuation and at white space only.       *)
(* Texts whose length matters (the chunk text) use one-character symbols. *)
(***************************************************************************)
EXTENDS Integers, Sequences, FiniteSets, TLC

VARIABLES
    \* one call of _normalize_script
    norm_pc, norm_in, norm_out,
    \* one call of ScriptGenerator.generate_script
    gen_pc, chunk_text, chunk_index, max_retries, gen_attempt, gen_calls,
    last_err, gen_result, gen_raised, gen_log,
    \* st.session_state of app.py
    state, chunks, chunk_idx, script_items, script_idx, current_feedback,
    answered, generator_ready,
    prefetch_cache, prefetch_future, prefetch_target_idx,
    prefetch_task_run_token, script_run_token,
    \* the futures of the prefetch executor, in the order of their submission
    futures,
    \* the position of the script run of main(), and whether the run was
    \* started by a click on the back-to-cover button of an error message
    pc, clicked,
    \* history: the script now played (who made it, under which run token it
    \* was launched and taken), and the last call of
    \* _ensure_next_chunk_prefetch
    script_src, ens

normVars == <<norm_pc, norm_in, norm_out>>
genVars == <<gen_pc, chunk_text, chunk_index, max_retries, gen_attempt, gen_calls,
             last_err, gen_result, gen_raised, gen_log>>

(***************************************************************************)
(* Bounds of the model.                                                    *)
(***************************************************************************)
MaxItems == 2
MaxRetriesBound == 2

(***************************************************************************)
(* Python values read from the decoded JSON: None, or a str, or a list.    *)
(***************************************************************************)
NoneV == [t |-> "none"]
Str(s) == [t |-> "str", s |-> s]
ListV(l) == [t |-> "list", l |-> l]

\* str(v or default) for v None or a str: None and "" are falsy.
StrOr(v, default) == IF v.t = "str" /\ v.s # <<>> THEN v.s ELSE default

(***************************************************************************)
(* Character classes of the patterns in script_engine.py.                  *)
(***************************************************************************)
AlphaUpper == <<"A","B","C","D","E","F","G","H","I","J","K","L","M",
                "N","O","P","Q","R","S","T","U","V","W","X","Y","Z">>
AlphaLower == <<"a","b","c","d","e","f","g","h","i","j","k","l","m",
                "n","o","p","q","r","s","t","u","v","w","x","y","z">>
DigitChars == <<"0","1","2","3","4","5","6","7","8","9">>
IsSpace(c) == c \in {" ", "\t", "\n"}
IsLetter(c) == \E i \in 1..26 : AlphaUpper[i] = c \/ AlphaLower[i] = c
IsDigit(c) == \E i \in 1..10 : DigitChars[i] = c
\* "fw(" , "fw)" , "fw:" and "dun" stand for the full-width brackets, the
\* full-width colon and the ideographic comma of the patterns.
IsOpen(c) == c \in {"(", "fw("}
IsClose(c) == c \in {")", "fw)"}
IsPunct(c) == c \in {".", ")", "dun", ",", ":", "fw:"}
\* ord(letter.upper()) - ord("A")
LetterOrd(c) == (CHOOSE i \in 1..26 : AlphaUpper[i] = c \/ AlphaLower[i] = c) - 1
DigitVal(c) == (CHOOSE i \in 1..10 : DigitChars[i] = c) - 1

(***************************************************************************)
(* str.strip()                                                             *)
(***************************************************************************)
RECURSIVE LStrip(_)
LStrip(s) == IF s # <<>> /\ IsSpace(Head(s)) THEN LStrip(Tail(s)) ELSE s
RECURSIVE RStrip(_)
RStrip(s) == IF s # <<>> /\ IsSpace(s[Len(s)])
             THEN RStrip(SubSeq(s, 1, Len(s) - 1)) ELSE s
Strip(s) == RStrip(LStrip(s))

\* The first position >= i of s that holds no white space (Len(s)+1 if none).
RECURSIVE SkipSpaces(_, _)
SkipSpaces(s, i) == IF i <= Len(s) /\ IsSpace(s[i]) THEN SkipSpaces(s, i + 1) ELSE i

\* (?:[A-Za-z]|\d{1,2}) at position i: the position after it, 0 if no match.
\* Two digits are taken when there are two: a pattern that goes on with
\* white space, a bracket or punctuation cannot match a digit left behind.
LabelEnd(s, i) ==
    IF i > Len(s) THEN 0
    ELSE IF IsLetter(s[i]) THEN i + 1
    ELSE IF IsDigit(s[i])
         THEN IF i + 1 <= Len(s) /\ IsDigit(s[i + 1]) THEN i + 2 ELSE i + 1
    ELSE 0

\* \s*[close or punctuation]\s* from position i on (i = 0: the label did not
\* match): the rest of s after the match, s itself if there is no match.
CutAtMark(s, p, isClose) ==
    IF p <= Len(s) /\ (IF isClose THEN IsClose(s[p]) ELSE IsPunct(s[p]))
    THEN SubSeq(s, SkipSpaces(s, p + 1), Len(s))
    ELSE s
CutAfterMark(s, i, isClose) ==
    IF i = 0 THEN s ELSE CutAtMark(s, SkipSpaces(s, i), isClose)

\* re.sub(r"^\s*[(]\s*(?:[A-Za-z]|\d{1,2})\s*[)]\s*", "", text)
SubParenPrefixAt(s, p0) ==
    IF p0 <= Len(s) /\ IsOpen(s[p0])
    THEN CutAfterMark(s, LabelEnd(s, SkipSpaces(s, p0 + 1)), TRUE)
    ELSE s
SubParenPrefix(s) == SubParenPrefixAt(s, SkipSpaces(s, 1))

\* re.sub(r"^\s*(?:[A-Za-z]|\d{1,2})\s*[\.\)dun,:fw:]\s*", "", text)
SubPunctPrefix(s) == CutAfterMark(s, LabelEnd(s, SkipSpaces(s, 1)), FALSE)

\* One pass of the loop of _normalize_option_text.
StripPrefixPass(s) == Strip(SubPunctPrefix(Strip(SubParenPrefix(s))))

\* for _ in range(3): ... if text == prev: break
RECURSIVE StripPrefixes(_, _)
StripPrefixesStep(prev, text, passes) ==
    IF text = prev THEN text ELSE StripPrefixes(text, passes - 1)
StripPrefixes(s, passes) ==
    IF passes = 0 THEN s ELSE StripPrefixesStep(s, StripPrefixPass(s), passes)

PrefixPasses == 3

\* a or b
OrElse(a, b) == IF a # <<>> THEN a ELSE b

\* _normalize_option_text(value) for a value that is None or a str.
NormalizeOptionTextOf(text) ==
    IF text = <<>> THEN <<>> ELSE OrElse(StripPrefixes(text, PrefixPasses), text)
NormalizeOptionText(value) == NormalizeOptionTextOf(Strip(StrOr(value, <<>>)))

\* [close]?[punct]?\s* matched against the whole rest r of the string.
LabelTail(r) ==
    \E a \in 0..1, b \in 0..1 :
        /\ a + b <= Len(r)
        /\ a = 1 => IsClose(r[1])
        /\ b = 1 => IsPunct(r[a + 1])
        /\ \A k \in (a + b + 1)..Len(r) : IsSpace(r[k])

\* The label at position p of s ends before position e and has the value n.
LabelValue(s, e, n) ==
    IF LabelTail(SubSeq(s, SkipSpaces(s, e), Len(s))) THEN <<n>> ELSE <<>>
LabelAt(s, p) ==
    IF p > Len(s) THEN <<>>
    ELSE IF IsLetter(s[p]) THEN LabelValue(s, p + 1, LetterOrd(s[p]))
    ELSE IF IsDigit(s[p])
         THEN IF p + 1 <= Len(s) /\ IsDigit(s[p + 1])
              THEN LabelValue(s, p + 2, 10 * DigitVal(s[p]) + DigitVal(s[p + 1]) - 1)
              ELSE LabelValue(s, p + 1, DigitVal(s[p]) - 1)
    ELSE <<>>
LabelOf(s) ==
    IF s = <<>> THEN <<>> ELSE LabelAt(s, SkipSpaces(s, IF IsOpen(s[1]) THEN 2 ELSE 1))

\* _option_label_to_index(text): <<n>> for an index n, << >> for None.
OptionLabelToIndex(text) == LabelOf(Strip(text))

\* The first option equal to `cleaned`: for opt in options: if cleaned == opt.
FirstEqual(cleaned, options) ==
    IF \E k \in 1..Len(options) : Strip(options[k]) = cleaned
    THEN CHOOSE k \in 1..Len(options) :
            /\ Strip(options[k]) = cleaned
            /\ \A j \in 1..(k - 1) : Strip(options[j]) # cleaned
    ELSE 0

\* if idx is not None and 0 <= idx < len(options): return options[idx]
\* Mutant: the label is not looked at.
PickByLabelNever(idx, options, otherwise) == otherwise
PickByLabel(idx, options, otherwise) ==
    IF idx # <<>> /\ 0 <= idx[1] /\ idx[1] < Len(options) THEN options[idx[1] + 1]
    ELSE otherwise
\* for opt in options: if cleaned == str(opt).strip(): return opt
\* return cleaned or options[0]
PickByText(hit, cleaned, options) ==
    IF hit # 0 THEN options[hit] ELSE OrElse(cleaned, options[1])
ResolveCleaned(cleaned, options) ==
    PickByLabel(OptionLabelToIndex(cleaned), options,
                PickByText(FirstEqual(cleaned, options), cleaned, options))
ResolveAnswer(raw, options) ==
    IF options = <<>> THEN raw
    ELSE IF raw = <<>> THEN options[1]
    ELSE PickByLabel(OptionLabelToIndex(raw), options,
                     ResolveCleaned(NormalizeOptionText(Str(raw)), options))

\* _normalize_correct_answer(raw_answer, options); options are 1-based here.
NormalizeCorrectAnswer(raw_answer, options) ==
    ResolveAnswer(Strip(StrOr(raw_answer, <<>>)), options)

EmotionKeys == {<<"char_normal">>, <<"char_happy">>, <<"char_angry">>, <<"char_shy">>}

\* _clamp_emotion
\* Mutant: the emotion is returned as it is.
ClampKeyKeep(e) == e
ClampKey(e) == IF e \in EmotionKeys THEN e ELSE <<"char_normal">>
ClampEmotion(emotion) == ClampKey(Strip(StrOr(emotion, <<"char_normal">>)))


(***************************************************************************)
(* Fixed texts of script_engine.py, each one symbol.                       *)
(***************************************************************************)
DefaultSpeaker == <<"<Nana>">>
DefaultFeedbackCorrect == <<"<not-bad>">>
DefaultFeedbackWrong == <<"<think-again>">>
DefaultPrompt == <<"<which-one>">>
NormalizeFallbackMsg == <<"<too-hardcore>">>
EmptyChunkMsg == <<"<chunk-is-empty>">>
AllFailedMsg == <<"<too-convoluted>", "<go-on-simplified>">>
HintOpen == <<"\n", "\n", "<excerpt:>">>
HintClose == <<"<ellipsis>">>
ErrSuffix(errName) == <<"\n", "<parse-failed:>", errName>>

T_dialogue == <<"dialogue">>
T_quiz == <<"quiz">>
T_choice == <<"choice">>
T_sub_head == <<"sub_head">>
ItemTypes == {T_dialogue, T_quiz, T_choice, T_sub_head}

\* _fallback_script(msg, chunk_index=index, extra_hint=...): extra_hint is
\* << >> for None or "".
FallbackScript(msg, index, extra_hint) ==
        << [type    |-> T_dialogue,
            speaker |-> DefaultSpeaker,
            text    |-> IF extra_hint # <<>>
                        THEN msg \o HintOpen \o extra_hint \o HintClose
                        ELSE msg,
            emotion |-> IF index % 2 # 0 THEN <<"char_shy">>
                        ELSE <<"char_normal">>] >>

\* A decoded JSON object, every key it may carry (None: the key is absent or
\* null); isDict is FALSE for an element that is no JSON object.
RawBlank ==
    [isDict |-> TRUE, type |-> NoneV, title |-> NoneV, speaker |-> NoneV,
     text |-> NoneV, emotion |-> NoneV, question |-> NoneV, options |-> NoneV,
     correct_answer |-> NoneV, feedback_correct |-> NoneV,
     feedback_wrong |-> NoneV, explanation |-> NoneV, prompt |-> NoneV]

\* [self._normalize_option_text(o) for o in opts]
NormalizeOptions(opts) == [k \in 1..Len(opts) |-> NormalizeOptionText(opts[k])]

\* isinstance(opts, list) and len(opts) >= 2
MinOptions == 2
\* Mutant: the check `len(opts) >= 2` is left out.
OptionsAnyList(opts) == opts.t = "list"
OptionsOk(opts) == opts.t = "list" /\ Len(opts.l) >= MinOptions

\* The branches of the loop of _normalize_script, one per type.
NormalizeSubHead(title) ==
    IF title # <<>> THEN << [type |-> T_sub_head, title |-> title] >> ELSE <<>>
NormalizeDialogue(it, text) ==
    IF text # <<>>
    THEN << [type    |-> T_dialogue,
             speaker |-> Strip(StrOr(it.speaker, DefaultSpeaker)),
             text    |-> text,
             emotion |-> ClampEmotion(it.emotion)] >>
    ELSE <<>>
QuizItem(it, q, opts2) ==
    << [type             |-> T_quiz,
        question         |-> q,
        options          |-> opts2,
        correct_answer   |-> NormalizeCorrectAnswer(it.correct_answer, opts2),
        feedback_correct |-> Strip(StrOr(it.feedback_correct, DefaultFeedbackCorrect)),
        feedback_wrong   |-> Strip(StrOr(it.feedback_wrong, DefaultFeedbackWrong)),
        explanation      |-> Strip(StrOr(it.explanation, <<>>)),
        emotion          |-> ClampEmotion(it.emotion)] >>
NormalizeQuiz(it, q) ==
    IF ~(q # <<>> /\ OptionsOk(it.options)) THEN <<>>
    ELSE QuizItem(it, q, NormalizeOptions(it.options.l))
NormalizeChoice(it) ==
    IF ~OptionsOk(it.options) THEN <<>>
    ELSE << [type        |-> T_choice,
             prompt      |-> Strip(StrOr(it.prompt, StrOr(it.question, DefaultPrompt))),
             options     |-> NormalizeOptions(it.options.l),
             emotion     |-> ClampEmotion(it.emotion),
             explanation |-> Strip(StrOr(it.explanation, <<>>))] >>
NormalizeTyped(it, t) ==
    IF t \notin ItemTypes THEN <<>>
    ELSE IF t = T_sub_head THEN NormalizeSubHead(Strip(StrOr(it.title, <<>>)))
    ELSE IF t = T_dialogue THEN NormalizeDialogue(it, Strip(StrOr(it.text, <<>>)))
    ELSE IF t = T_quiz THEN NormalizeQuiz(it, Strip(StrOr(it.question, <<>>)))
    ELSE NormalizeChoice(it)

\* The body of the loop of _normalize_script for one element: the items it
\* appends to out (none or one).
NormalizeItem(it) ==
    IF ~it.isDict THEN <<>> ELSE NormalizeTyped(it, Strip(StrOr(it.type, <<>>)))

\* Mutant: `break` in place of `continue` at an element that gives no item.
RECURSIVE NormalizeLoopBreak(_)
NormalizeLoopBreak(items) ==
    IF items = <<>> \/ NormalizeItem(Head(items)) = <<>> THEN <<>>
    ELSE NormalizeItem(Head(items)) \o NormalizeLoopBreak(Tail(items))
RECURSIVE NormalizeLoop(_)
NormalizeLoop(items) ==
    IF items = <<>> THEN <<>>
    ELSE NormalizeItem(Head(items)) \o NormalizeLoop(Tail(items))

\* The chunk_index the normalizer hands to _fallback_script is -1.
SentinelIndex == 0 - 1

\* _normalize_script(items)
\* Mutant: `return out` without the check `if not out`.
NormalizeScriptBare(items) == NormalizeLoop(items)
NormalizeScript(items) ==
    OrElse(NormalizeLoop(items), FallbackScript(NormalizeFallbackMsg, SentinelIndex, <<>>))


(***************************************************************************)
(* Inputs of the normalizer: decoded JSON elements of every shape.         *)
(***************************************************************************)
Q_why == Str(<<"Why?">>)
\* Lists of two options or more, and what is no such list.
OptionLists ==
    { ListV(<< Str(<<"(", "A", ")", " ", "Foo">>), Str(<<"(", "B", ")", " ", "Bar">>) >>),
      ListV(<< Str(<<"A", ".", " ", "Foo">>), Str(<<"B", ".", "Bar">>), Str(<<"Qux">>) >>),
      ListV(<< NoneV, Str(<<"2", ")", " ", "B">>) >>),
      ListV(<< Str(<<"B">>), Str(<<"Foo">>) >>) }
ShortOptions == { ListV(<< Str(<<"Foo">>) >>), Str(<<"Foo">>) }
RawAnswers ==
    { NoneV, Str(<<"B">>), Str(<<"(", "b", ")">>), Str(<<"2", ".">>), Str(<<"D">>),
      Str(<<" ", "Bar", " ">>), Str(<<"B", ".", " ", "Bar">>), Str(<<"Baz">>),
      Str(<<" ", "(", " ", "1", " ", ")", ":">>), Str(<<"1", ".", " ", "B">>) }
RawQuiz(o, a) ==
    [RawBlank EXCEPT !.type = Str(T_quiz), !.question = Q_why,
                     !.options = o, !.correct_answer = a]
RawQuizzes ==
    { RawQuiz(o, a) : o \in OptionLists, a \in RawAnswers } \cup
    { RawQuiz(o, Str(<<"B">>)) : o \in ShortOptions }
RawOthers ==
    { [RawBlank EXCEPT !.isDict = FALSE],
      RawBlank,
      [RawBlank EXCEPT !.type = Str(<<"narration">>), !.text = Str(<<"Hi!">>)],
      [RawBlank EXCEPT !.type = Str(<<" ", "dialogue">>), !.speaker = Str(<<"Nana">>),
                       !.text = Str(<<"Let's", " ", "begin!">>),
                       !.emotion = Str(<<"bogus">>)],
      [RawBlank EXCEPT !.type = Str(T_dialogue), !.speaker = Str(<<" ">>),
                       !.text = Str(<<" ", "Hi!", "\n">>),
                       !.emotion = Str(<<"char_happy", " ">>)],
      [RawBlank EXCEPT !.type = Str(T_dialogue), !.text = Str(<<" ">>)],
      [RawBlank EXCEPT !.type = Str(T_sub_head), !.title = Str(<<"3.1", " ", "Overview">>)],
      [RawBlank EXCEPT !.type = Str(T_sub_head)],
      [RawBlank EXCEPT !.type = Str(T_quiz), !.options = ListV(<<Str(<<"Foo">>), Str(<<"Bar">>)>>)],
      [RawBlank EXCEPT !.type = Str(T_choice), !.question = Q_why,
                       !.options = ListV(<<Str(<<"1", ".", "Foo">>), Str(<<"Bar">>)>>),
                       !.emotion = Str(<<"char_shy">>)],
      [RawBlank EXCEPT !.type = Str(T_choice), !.prompt = Str(<<"Pick">>),
                       !.options = ListV(<<Str(<<"Foo">>)>>)] }
RawItemPool == RawQuizzes \cup RawOthers

\* The lists of at most n elements of S.
ListsUpTo(S, n) == UNION { [1..k -> S] : k \in 0..n }

(***************************************************************************)
(* The variables of the session of app.py and their initial values.        *)
(***************************************************************************)
sessVars == <<state, chunks, chunk_idx, script_items, script_idx, current_feedback,
              answered, generator_ready>>
coordVars == <<prefetch_cache, prefetch_future, prefetch_target_idx,
               prefetch_task_run_token, script_run_token, futures, ens>>
appVars == <<sessVars, coordVars, pc, clicked, script_src>>
vars == <<normVars, genVars, appVars>>

\* init_state()
EnsNone == [idx |-> 0 - 1, task |-> 0, prev |-> 0, prevfailed |-> FALSE]
SrcNone == [by |-> 0, run |-> 0, at |-> 0, chunk |-> 0 - 1]
AppIdle ==
    /\ state = "LANDING" /\ chunks = <<>> /\ chunk_idx = 0 /\ script_items = <<>>
    /\ script_idx = 0 /\ current_feedback = "None" /\ answered = FALSE
    /\ generator_ready = FALSE
    /\ prefetch_cache = <<>> /\ prefetch_future = <<>> /\ prefetch_target_idx = <<>>
    /\ prefetch_task_run_token = <<>> /\ script_run_token = 0
    /\ futures = <<>>
    /\ pc = "idle" /\ clicked = FALSE /\ script_src = SrcNone /\ ens = EnsNone

(***************************************************************************)
(* Specification NormSpec: _normalize_script applied to a bounded input.   *)
(***************************************************************************)
NormIdle == norm_pc = "idle" /\ norm_in = <<>> /\ norm_out = <<>>
GenIdle ==
    /\ gen_pc = "idle" /\ chunk_text = <<>> /\ chunk_index = 0 /\ max_retries = 0
    /\ gen_attempt = 0 /\ gen_calls = 0 /\ last_err = "None" /\ gen_result = <<>>
    /\ gen_raised = FALSE /\ gen_log = <<>>

NormInit ==
    /\ norm_pc = "call"
    /\ norm_in \in ListsUpTo(RawItemPool, MaxItems)
    /\ norm_out = <<>>
    /\ GenIdle /\ AppIdle

NormalizeCall ==
    /\ norm_pc = "call"
    /\ norm_out' = NormalizeScript(norm_in)
    /\ norm_pc' = "done"
    /\ UNCHANGED <<norm_in, genVars, appVars>>

NormNext == NormalizeCall

NormSpec == NormInit /\ [][NormNext]_vars

(***************************************************************************)
(* ScriptGenerator.generate_script                                         *)
(***************************************************************************)
DefaultMaxRetries == 2
HintLen == 260

\* Mutant: the hint is the whole text.
PrefixWhole(s, n) == s
\* chunk_text[:260]
Prefix(s, n) == SubSeq(s, 1, IF Len(s) < n THEN Len(s) ELSE n)

\* What one call of self.llm.invoke may do: raise (an API error, a time-out),
\* or return a response whose content is not a str, or text that holds no
\* JSON and no bracketed span, or text whose bracketed span is no JSON, or a
\* JSON value that is no list and holds none, or text from which a JSON list
\* is decoded.
GenItemLists ==
    { <<>>,
      << [RawBlank EXCEPT !.isDict = FALSE] >>,
      << [RawBlank EXCEPT !.type = Str(<<"narration">>), !.text = Str(<<"Hi!">>)] >>,
      << [RawBlank EXCEPT !.type = Str(T_quiz), !.question = Q_why,
                          !.options = ListV(<<Str(<<"Foo">>)>>)] >>,
      << [RawBlank EXCEPT !.type = Str(T_dialogue), !.text = Str(<<"Hi!">>),
                          !.emotion = Str(<<"bogus">>)] >>,
      << [RawBlank EXCEPT !.type = Str(T_sub_head)],
         [RawBlank EXCEPT !.type = Str(T_quiz), !.question = Q_why,
                          !.options = ListV(<<Str(<<"A", ".", "Foo">>), Str(<<"Bar">>)>>),
                          !.correct_answer = Str(<<"B">>)] >> }
ModelOutcomes ==
    { [kind |-> "raise", err |-> "APITimeoutError"],
      [kind |-> "content", err |-> "AttributeError"],
      [kind |-> "text", err |-> "ValueError"],
      [kind |-> "span", err |-> "JSONDecodeError"] }
    \cup { [kind |-> "list", items |-> l] : l \in GenItemLists }

\* _parse_json_list(content): the decoded list, or the exception raised.
ParseJsonList(resp) ==
    IF resp.kind = "list" THEN [ok |-> TRUE, items |-> resp.items]
    ELSE [ok |-> FALSE, err |-> resp.err]

\* `except Exception`: every exception modelled here derives from Exception.
ExceptionClasses == {"APITimeoutError", "AttributeError", "ValueError", "JSONDecodeError"}
\* Mutant: `except ValueError` in place of `except Exception`.
CaughtValueErrorOnly(err) == err \in {"ValueError", "JSONDecodeError"}
CaughtByExcept(err) == err \in ExceptionClasses

\* One pass of the body of the retry loop on the model's outcome resp:
\* "return" a script, "except" (caught: last_err is set, continue), "next"
\* (normalized is empty: the loop goes on), or "escape" (an exception that
\* the except clause does not catch).
Raised(err) == [kind |-> IF CaughtByExcept(err) THEN "except" ELSE "escape", err |-> err]
\* Mutant: `if not normalized: return normalized`.
ReturnIfNone(normalized) ==
    IF normalized = <<>> THEN [kind |-> "return", script |-> normalized]
    ELSE [kind |-> "next"]
ReturnIfAny(normalized) ==
    IF normalized # <<>> THEN [kind |-> "return", script |-> normalized]
    ELSE [kind |-> "next"]
TryParsed(parsed) ==
    IF ~parsed.ok THEN Raised(parsed.err) ELSE ReturnIfAny(NormalizeScript(parsed.items))
TryAttempt(resp) ==
    IF resp.kind \in {"raise", "content"} THEN Raised(resp.err)
    ELSE TryParsed(ParseJsonList(resp))

\* The script returned once the loop is exhausted.
ExhaustedScript(text, index, err) ==
    FallbackScript(AllFailedMsg \o (IF err # "None" THEN ErrSuffix(err) ELSE <<>>),
                   index, Prefix(text, HintLen))

\* generate_script, up to the loop: the chunk text is stripped; an empty one
\* returns at once.
\* Mutant: the check `if not chunk_text` is left out.
GenerateScriptBeginUnchecked ==
    /\ gen_pc = "call"
    /\ gen_pc' = "loop"
    /\ UNCHANGED <<chunk_text, chunk_index, max_retries, gen_attempt, gen_calls,
                   last_err, gen_result, gen_raised, gen_log, normVars, appVars>>
GenerateScriptBegin ==
    /\ gen_pc = "call"
    /\ IF Strip(chunk_text) = <<>>
       THEN /\ gen_result' = FallbackScript(EmptyChunkMsg, chunk_index, <<>>)
            /\ gen_pc' = "done"
       ELSE /\ gen_pc' = "loop"
            /\ UNCHANGED gen_result
    /\ UNCHANGED <<chunk_text, chunk_index, max_retries, gen_attempt, gen_calls,
                   last_err, gen_raised, gen_log, normVars, appVars>>

\* What the outcome r of one pass does to the call.
AttemptEffect(r) ==
    /\ gen_pc' = IF r.kind \in {"return", "escape"} THEN "done" ELSE "loop"
    /\ gen_result' = IF r.kind = "return" THEN r.script ELSE gen_result
    /\ gen_raised' = (r.kind = "escape")
    /\ last_err' = IF r.kind = "except" THEN r.err ELSE last_err

\* Mutant: `for _ in range(self.max_retries + 2)`.
ModelCallOneMore(resp) ==
    /\ gen_pc = "loop"
    /\ gen_attempt < max_retries + 2
    /\ gen_calls' = gen_calls + 1
    /\ gen_attempt' = gen_attempt + 1
    /\ gen_log' = Append(gen_log, resp)
    /\ AttemptEffect(TryAttempt(resp))
    /\ UNCHANGED <<chunk_text, chunk_index, max_retries, normVars, appVars>>

\* One iteration of `for _ in range(self.max_retries + 1)`.
ModelCall(resp) ==
    /\ gen_pc = "loop"
    /\ gen_attempt < max_retries + 1
    /\ gen_calls' = gen_calls + 1
    /\ gen_attempt' = gen_attempt + 1
    /\ gen_log' = Append(gen_log, resp)
    /\ AttemptEffect(TryAttempt(resp))
    /\ UNCHANGED <<chunk_text, chunk_index, max_retries, normVars, appVars>>

\* After the loop: the fallback script with the hint.
LoopExhausted ==
    /\ gen_pc = "loop"
    /\ gen_attempt >= max_retries + 1
    /\ gen_result' = ExhaustedScript(Strip(chunk_text), chunk_index, last_err)
    /\ gen_pc' = "done"
    /\ UNCHANGED <<chunk_text, chunk_index, max_retries, gen_attempt, gen_calls,
                   last_err, gen_raised, gen_log, normVars, appVars>>

\* Chunk texts: empty, blank, short, and longer than the hint.
LongText(n) == [i \in 1..n |-> IF i < HintLen THEN "a" ELSE IF i = HintLen THEN "b" ELSE "c"]
ChunkTexts ==
    { <<>>, <<" ", "\n">>, <<" ", "a", " ", "b", " ">>,
      LongText(HintLen), <<" ">> \o LongText(HintLen + 1) \o <<" ">>,
      LongText(HintLen + 2) }

GenInit ==
    /\ gen_pc = "call"
    /\ chunk_text \in ChunkTexts
    /\ chunk_index \in 0..1
    /\ max_retries \in 0..MaxRetriesBound
    /\ gen_attempt = 0 /\ gen_calls = 0 /\ last_err = "None" /\ gen_result = <<>>
    /\ gen_raised = FALSE /\ gen_log = <<>>
    /\ NormIdle /\ AppIdle

GenNext ==
    \/ GenerateScriptBegin
    \/ \E resp \in ModelOutcomes : ModelCall(resp)
    \/ LoopExhausted

GenSpec == GenInit /\ [][GenNext]_vars
\* Every model call returns or raises, and the loop goes on after it.
GenFairSpec == GenSpec /\ WF_vars(GenNext)

(***************************************************************************)
(* app.py: the prefetch coordinator.  The coordinator's share of the       *)
(* session state is handled as one record, so that the helper functions    *)
(* of app.py are operators that compose as their calls do.  None is <<>>   *)
(* and a value v that may be None is <<v>>.                                *)
(***************************************************************************)
MaxChunks == 3
MaxTasks == 3
MaxRunToken == 3
MaxOverrun == 1

Coord ==
    [prefetch_cache |-> prefetch_cache, prefetch_future |-> prefetch_future,
     prefetch_target_idx |-> prefetch_target_idx,
     prefetch_task_run_token |-> prefetch_task_run_token,
     script_run_token |-> script_run_token, futures |-> futures, ens |-> ens]

SetCoord(p) ==
    /\ prefetch_cache' = p.prefetch_cache
    /\ prefetch_future' = p.prefetch_future
    /\ prefetch_target_idx' = p.prefetch_target_idx
    /\ prefetch_task_run_token' = p.prefetch_task_run_token
    /\ script_run_token' = p.script_run_token
    /\ futures' = p.futures
    /\ ens' = p.ens

\* concurrent.futures.Future: done(), cancel(), and result() under
\* "try: ... except Exception: script = None"
FutureDone(f) == f.state \in {"CANCELLED", "FINISHED"}
\* Mutant: cancel() also takes a task that executes.
FutureCancelRunning(f) == [f EXCEPT !.state = "CANCELLED"]
FutureCancel(f) == IF f.state = "PENDING" THEN [f EXCEPT !.state = "CANCELLED"] ELSE f
\* Mutant: result() raises for every task.
FutureResultRaises(f) == <<>>
FutureResult(f) ==
    IF f.state = "FINISHED" /\ f.outcome = "script" THEN f.script ELSE <<>>

SlotFuture(p) == p.futures[p.prefetch_future[1]]

\* int(task_run_token or -1)
TokenOr(tok) == IF tok = <<>> \/ tok = <<0>> THEN 0 - 1 ELSE tok[1]

CachePut(cache, idx, script) ==
    [k \in (DOMAIN cache) \cup {idx} |-> IF k = idx THEN script ELSE cache[k]]
\* Mutant: cache.get in place of cache.pop.
CacheGet(cache, idx) == cache
CachePop(cache, idx) == [k \in (DOMAIN cache) \ {idx} |-> cache[k]]

\* Mutant: the three slot fields are not set to None.
ClearSlotKept(p) == p
ClearSlot(p) ==
    [p EXCEPT !.prefetch_future = <<>>, !.prefetch_target_idx = <<>>,
              !.prefetch_task_run_token = <<>>]

\* _clear_prefetch_buffer(bump_run_token=...)
\* Mutant: the pending future is not cancelled.
CancelSlotNone(p) == p
CancelSlot(p) ==
    IF p.prefetch_future # <<>> /\ ~FutureDone(SlotFuture(p))
    THEN [p EXCEPT !.futures[p.prefetch_future[1]] = FutureCancel(@)]
    ELSE p
\* Mutant: the stored token is not read, the default 0 is used.
BumpRunTokenFromDefault(p, bump_run_token) ==
    IF bump_run_token THEN [p EXCEPT !.script_run_token = 0 + 1] ELSE p
BumpRunToken(p, bump_run_token) ==
    IF bump_run_token THEN [p EXCEPT !.script_run_token = @ + 1] ELSE p
\* Mutant: `st.session_state.prefetch_cache = {}` is left out.
ClearCacheKept(p) == p
ClearCache(p) == [p EXCEPT !.prefetch_cache = <<>>]
ClearPrefetchBuffer(p, bump_run_token) ==
    BumpRunToken(ClearSlot(ClearCache(CancelSlot(p))), bump_run_token)

\* _collect_prefetch_if_ready()
\* Mutant: the collected script is dropped.
CollectStoreDrop(p, script, target_idx, task_run_token) == p
CollectStore(p, script, target_idx, task_run_token) ==
    IF script = <<>> \/ task_run_token # p.script_run_token
    THEN p
    ELSE [p EXCEPT !.prefetch_cache = CachePut(@, target_idx, script[1])]
CollectPrefetchIfReady(p) ==
    IF p.prefetch_future = <<>> \/ p.prefetch_target_idx = <<>> THEN p
    ELSE IF ~FutureDone(SlotFuture(p)) THEN p
    ELSE CollectStore(ClearSlot(p), FutureResult(SlotFuture(p)),
                      p.prefetch_target_idx[1], TokenOr(p.prefetch_task_run_token))

\* _take_prefetched_script(chunk_idx, wait_if_running=...): the state after
\* the call, the script returned (or None), and whether the call is blocked
\* in future.result() on a task that is not done.
Taken(p, script, wait) == [p |-> p, script |-> script, wait |-> wait]
\* Mutant: wait_if_running is taken as False.
TakeFromFutureNoWait(p, wait_if_running) ==
    IF ~FutureDone(SlotFuture(p))
    THEN Taken(p, <<>>, FALSE)
    ELSE Taken(ClearSlot(p), FutureResult(SlotFuture(p)), FALSE)
TakeFromFuture(p, wait_if_running) ==
    IF ~FutureDone(SlotFuture(p))
    THEN Taken(p, <<>>, wait_if_running)
    ELSE Taken(ClearSlot(p), FutureResult(SlotFuture(p)), FALSE)
\* Mutant: the cached script is returned and stays in the cache.
TakeAfterCollectKeep(p, idx, wait_if_running) ==
    IF idx \in DOMAIN p.prefetch_cache
    THEN Taken(p, <<p.prefetch_cache[idx]>>, FALSE)
    ELSE IF p.prefetch_future = <<>> \/ p.prefetch_target_idx # <<idx>>
    THEN Taken(p, <<>>, FALSE)
    ELSE IF TokenOr(p.prefetch_task_run_token) # p.script_run_token
    THEN Taken(p, <<>>, FALSE)
    ELSE TakeFromFuture(p, wait_if_running)
TakeAfterCollect(p, idx, wait_if_running) ==
    IF idx \in DOMAIN p.prefetch_cache
    THEN Taken([p EXCEPT !.prefetch_cache = CachePop(@, idx)],
               <<p.prefetch_cache[idx]>>, FALSE)
    ELSE IF p.prefetch_future = <<>> \/ p.prefetch_target_idx # <<idx>>
    THEN Taken(p, <<>>, FALSE)
    ELSE IF TokenOr(p.prefetch_task_run_token) # p.script_run_token
    THEN Taken(p, <<>>, FALSE)
    ELSE TakeFromFuture(p, wait_if_running)
TakePrefetchedScript(p, idx, wait_if_running) ==
    TakeAfterCollect(CollectPrefetchIfReady(p), idx, wait_if_running)

\* _ensure_next_chunk_prefetch(chunks, current_chunk_idx)
\* (run and fin are history: the run token at the submission and at the end)
NewFuture(next_idx, run_token) ==
    [state |-> "PENDING", outcome |-> "None", script |-> <<>>,
     target |-> next_idx, run |-> run_token, fin |-> 0 - 1]
\* Mutant: the run token of the task is not recorded.
SubmitTokenKept(p, next_idx) ==
    [p EXCEPT !.futures = Append(@, NewFuture(next_idx, p.script_run_token)),
              !.prefetch_future = <<Len(p.futures) + 1>>,
              !.prefetch_target_idx = <<next_idx>>]
Submit(p, next_idx) ==
    [p EXCEPT !.futures = Append(@, NewFuture(next_idx, p.script_run_token)),
              !.prefetch_future = <<Len(p.futures) + 1>>,
              !.prefetch_target_idx = <<next_idx>>,
              !.prefetch_task_run_token = <<p.script_run_token>>]
\* Mutant: the two early returns on a future in the slot are left out.
SlotNeverBusy(p, next_idx) == FALSE
SlotBusy(p, next_idx) ==
    /\ p.prefetch_future # <<>>
    /\ \/ /\ p.prefetch_target_idx = <<next_idx>>
          /\ p.prefetch_task_run_token = <<p.script_run_token>>
       \/ ~FutureDone(SlotFuture(p))
\* Mutant: a task is submitted whenever the next chunk is not cached.
EnsureAfterCollectAlways(p, next_idx) ==
    IF next_idx \in DOMAIN p.prefetch_cache THEN p ELSE Submit(p, next_idx)
EnsureAfterCollect(p, next_idx) ==
    IF next_idx \in DOMAIN p.prefetch_cache THEN p
    ELSE IF SlotBusy(p, next_idx) THEN p
    ELSE Submit(p, next_idx)
\* Mutant: the range check of next_idx is left out.
EnsureUnchecked(p, nchunks, current_chunk_idx) ==
    EnsureAfterCollect(CollectPrefetchIfReady(p), current_chunk_idx + 1)
EnsureNextChunkPrefetch(p, nchunks, current_chunk_idx) ==
    IF current_chunk_idx + 1 < 0 \/ current_chunk_idx + 1 >= nchunks THEN p
    ELSE EnsureAfterCollect(CollectPrefetchIfReady(p), current_chunk_idx + 1)

\* History of the calls of _ensure_next_chunk_prefetch: the task the call
\* has submitted (0: none), the task submitted by the call just before it
\* when that call had the same chunk index and nothing but the collecting
\* of a finished task happened in between, and whether that task had
\* finished with an exception when this call was made.
TaskFailed(fs, id) == id # 0 /\ fs[id].state = "FINISHED" /\ fs[id].outcome = "exception"
EnsureNoted(p, q, idx) ==
    [q EXCEPT !.ens = [idx |-> idx,
                       task |-> IF Len(q.futures) > Len(p.futures) THEN Len(q.futures) ELSE 0,
                       prev |-> IF p.ens.idx = idx THEN p.ens.task ELSE 0,
                       prevfailed |-> p.ens.idx = idx /\ TaskFailed(p.futures, p.ens.task)]]
EnsureCall(p, nchunks, idx) == EnsureNoted(p, EnsureNextChunkPrefetch(p, nchunks, idx), idx)
ForgetEnsure(p) == [p EXCEPT !.ens = EnsNone]

(***************************************************************************)
(* app.py: the session and the script runs of main().  A script run is one *)
(* action, except where it blocks: in future.result() of                   *)
(* _take_prefetched_script (pc = "take_wait") and in the foreground        *)
(* generation of load_script_for_chunk (pc = "fg").  pc = "run" is a       *)
(* rerun that is due, "idle" a page waiting for the user, "error" the      *)
(* error message of PROCESSING with its back-to-cover button.              *)
(***************************************************************************)
AppItem(t) == [type |-> t, ending |-> FALSE]
ScriptShapes == { <<AppItem(T_dialogue)>>, <<AppItem(T_quiz), AppItem(T_dialogue)>> }
EndingScript == << [type |-> T_dialogue, ending |-> TRUE] >>
Script(items, chunk, by) == [items |-> items, chunk |-> chunk, by |-> by]

\* get_current_item()
GetCurrentItem(items, idx) ==
    IF 0 <= idx /\ idx < Len(items) THEN <<items[idx + 1]>> ELSE <<>>
ItemTypeOf(item) == IF item = <<>> THEN T_dialogue ELSE item[1].type
IsQa(item) == ItemTypeOf(item) \in {T_quiz, T_choice}

\* _apply_script_items(script)
\* Mutant: `script_idx = 0` is left out.
ApplyKeepingIndex(script) ==
    /\ script_items' = script.items
    /\ script_idx' = script_idx
    /\ current_feedback' = "None"
    /\ answered' = FALSE
    /\ generator_ready' = TRUE
ApplyScriptItems(script) ==
    /\ script_items' = script.items
    /\ script_idx' = 0
    /\ current_feedback' = "None"
    /\ answered' = FALSE
    /\ generator_ready' = TRUE

\* Who made the script that is applied: a prefetch task (and the run token
\* it was launched under) or the foreground (by = 0).
SourceOf(p, script) ==
    [by |-> script.by,
     run |-> IF script.by = 0 THEN p.script_run_token ELSE p.futures[script.by].run,
     at |-> p.script_run_token, chunk |-> script.chunk]

\* _reset_session(), and the st.rerun() that follows it at every call
ResetSession(p) ==
    /\ state' = "LANDING"
    /\ chunks' = <<>>
    /\ chunk_idx' = 0
    /\ script_items' = <<>>
    /\ script_idx' = 0
    /\ current_feedback' = "None"
    /\ answered' = FALSE
    /\ generator_ready' = FALSE
    /\ SetCoord(ForgetEnsure(ClearPrefetchBuffer(p, TRUE)))
    /\ script_run_token' <= MaxRunToken
    /\ script_src' = SrcNone
    /\ pc' = "idle"
    /\ clicked' = FALSE

\* render_landing_page(), render_guide_page() and the SETUP page of main()
StartClick ==
    /\ UNCHANGED <<normVars, genVars>>
    /\ state = "LANDING" /\ pc = "idle"
    /\ state' = "GUIDE"
    /\ UNCHANGED <<chunks, chunk_idx, script_items, script_idx, current_feedback,
                   answered, generator_ready, coordVars, pc, clicked, script_src>>
GuideClick ==
    /\ UNCHANGED <<normVars, genVars>>
    /\ state = "GUIDE" /\ pc = "idle"
    /\ state' \in {"SETUP", "LANDING"}
    /\ UNCHANGED <<chunks, chunk_idx, script_items, script_idx, current_feedback,
                   answered, generator_ready, coordVars, pc, clicked, script_src>>
SetupBack ==
    /\ UNCHANGED <<normVars, genVars>>
    /\ state = "SETUP" /\ pc = "idle"
    /\ state' = "GUIDE"
    /\ UNCHANGED <<chunks, chunk_idx, script_items, script_idx, current_feedback,
                   answered, generator_ready, coordVars, pc, clicked, script_src>>
Upload ==
    /\ UNCHANGED <<normVars, genVars>>
    /\ state = "SETUP" /\ pc = "idle"
    /\ state' = "PROCESSING"
    /\ pc' = "run"
    /\ UNCHANGED <<chunks, chunk_idx, script_items, script_idx, current_feedback,
                   answered, generator_ready, coordVars, clicked, script_src>>

\* PROCESSING: an error message and its back-to-cover button.  The button
\* is pressed in a later run, which comes to the button only by the same
\* branch of main().
ProcessingError(p) ==
    IF clicked
    THEN ResetSession(p)
    ELSE /\ pc' = "error"
         /\ SetCoord(p)
         /\ UNCHANGED <<sessVars, clicked, script_src>>
BackToCoverClick ==
    /\ UNCHANGED <<normVars, genVars>>
    /\ state = "PROCESSING" /\ pc = "error"
    /\ pc' = "run"
    /\ clicked' = TRUE
    /\ UNCHANGED <<sessVars, coordVars, script_src>>

\* PROCESSING, after the script of chunk idx is there: lines 1193-1194 and
\* 1205-1207
Applied(p, script, nchunks, idx) ==
    /\ ApplyScriptItems(script)
    /\ script_src' = SourceOf(p, script)
    /\ SetCoord(EnsureCall(p, nchunks, idx))
    /\ Len(futures') <= MaxTasks
    /\ state' = "GAME_LOOP"
    /\ pc' = "run"
    /\ clicked' = FALSE

\* PROCESSING, after _take_prefetched_script has returned or has blocked
AfterTake(r, nchunks, idx) ==
    IF r.wait
    THEN /\ pc' = "take_wait"
         /\ SetCoord(r.p)
         /\ UNCHANGED <<state, script_items, script_idx, current_feedback, answered,
                        generator_ready, clicked, script_src>>
    ELSE IF r.script # <<>>
    THEN Applied(r.p, r.script[1], nchunks, idx)
    ELSE /\ pc' = "fg"
         /\ SetCoord(r.p)
         /\ UNCHANGED <<state, script_items, script_idx, current_feedback, answered,
                        generator_ready, clicked, script_src>>

\* Mutant: PROCESSING always takes chunk 0.
ClampToFirst(idx, nchunks) == 0
Clamp(idx, nchunks) ==
    IF idx > nchunks - 1 THEN (IF nchunks - 1 < 0 THEN 0 ELSE nchunks - 1)
    ELSE IF idx < 0 THEN 0 ELSE idx

ProcessingGenerate(p, chs, idx) ==
    /\ chunks' = chs
    /\ chunk_idx' = idx
    /\ AfterTake(TakePrefetchedScript(ForgetEnsure(p), idx, TRUE), Len(chs), idx)

\* load_and_chunk_pdf: the temporary file is missing, the parser raises, no
\* text is found, or the chunks 0 .. n-1 are returned
LoadOutcomes ==
    { [ok |-> FALSE, chunks |-> <<>>] } \cup
    { [ok |-> TRUE, chunks |-> [i \in 1..n |-> i - 1]] : n \in 1..MaxChunks }

ProcessingRun ==
    /\ UNCHANGED <<normVars, genVars>>
    /\ state = "PROCESSING" /\ pc = "run"
    /\ IF chunks = <<>>
       THEN \E load \in LoadOutcomes :
               IF load.ok
               THEN /\ script_run_token < MaxRunToken
                    /\ ProcessingGenerate(ClearPrefetchBuffer(Coord, TRUE), load.chunks, 0)
               ELSE ProcessingError(Coord)
       ELSE ProcessingGenerate(Coord, chunks, Clamp(chunk_idx, Len(chunks)))

\* future.result() of _take_prefetched_script returns
TakeWaitDone ==
    /\ UNCHANGED <<normVars, genVars>>
    /\ pc = "take_wait"
    /\ FutureDone(SlotFuture(Coord))
    /\ UNCHANGED <<chunks, chunk_idx>>
    /\ AfterTake(Taken(ClearSlot(Coord), FutureResult(SlotFuture(Coord)), FALSE),
                 Len(chunks), chunk_idx)

\* load_script_for_chunk returns: ScriptGenerator() has raised (no API key),
\* or generate_script has returned a script
ForegroundDone ==
    /\ UNCHANGED <<normVars, genVars>>
    /\ pc = "fg"
    /\ \/ ProcessingError(Coord)
       \/ /\ \E items \in ScriptShapes :
                Applied(Coord, Script(items, chunk_idx, 0), Len(chunks), chunk_idx)
          /\ UNCHANGED <<chunks, chunk_idx>>

\* GAME_LOOP, lines 1213-1219: what every run of the page does before it
\* renders the item and its buttons
GameLoopPrologue(p, chs, idx) ==
    IF chs # <<>>
    THEN EnsureCall(CollectPrefetchIfReady(p), Len(chs), idx)
    ELSE CollectPrefetchIfReady(p)

GameLoopRun ==
    /\ UNCHANGED <<normVars, genVars>>
    /\ state = "GAME_LOOP" /\ pc = "run"
    /\ IF ~generator_ready
       THEN /\ state' = "PROCESSING"
            /\ UNCHANGED <<chunks, chunk_idx, script_items, script_idx, current_feedback,
                           answered, generator_ready, coordVars, pc, clicked, script_src>>
       ELSE /\ SetCoord(GameLoopPrologue(Coord, chunks, chunk_idx))
            /\ Len(futures') <= MaxTasks
            /\ pc' = "idle"
            /\ UNCHANGED <<sessVars, clicked, script_src>>

\* render_interaction: the exit button
ExitClick ==
    /\ UNCHANGED <<normVars, genVars>>
    /\ state = "GAME_LOOP" /\ pc = "idle"
    /\ ResetSession(GameLoopPrologue(Coord, chunks, chunk_idx))
    /\ Len(futures') <= MaxTasks

\* render_interaction: an option button of a quiz or a choice
Feedbacks(item) == IF ItemTypeOf(item) = T_quiz THEN {"correct", "wrong"} ELSE {"chosen"}
OptionClick ==
    /\ UNCHANGED <<normVars, genVars>>
    /\ state = "GAME_LOOP" /\ pc = "idle"
    /\ IsQa(GetCurrentItem(script_items, script_idx)) /\ ~answered
    /\ current_feedback' \in Feedbacks(GetCurrentItem(script_items, script_idx))
    /\ answered' = TRUE
    /\ SetCoord(GameLoopPrologue(Coord, chunks, chunk_idx))
    /\ Len(futures') <= MaxTasks
    /\ pc' = "run"
    /\ UNCHANGED <<state, chunks, chunk_idx, script_items, script_idx, generator_ready,
                   clicked, script_src>>

\* advance()
EndingSource(tok) == [by |-> 0, run |-> tok, at |-> tok, chunk |-> 0 - 1]
\* Mutant: the branch of the ending dialogue is left out.
AdvanceWithoutEnding ==
    /\ current_feedback' = "None"
    /\ answered' = FALSE
    /\ IF script_items = <<>>
       THEN UNCHANGED <<state, chunk_idx, script_items, script_idx, generator_ready, script_src>>
       ELSE IF script_idx + 1 < Len(script_items)
       THEN /\ script_idx' = script_idx + 1
            /\ UNCHANGED <<state, chunk_idx, script_items, generator_ready, script_src>>
       ELSE /\ chunk_idx' = chunk_idx + 1
            /\ script_idx' = script_idx + 1
            /\ generator_ready' = FALSE
            /\ state' = "PROCESSING"
            /\ UNCHANGED <<script_items, script_src>>
Advance ==
    /\ current_feedback' = "None"
    /\ answered' = FALSE
    /\ IF script_items = <<>>
       THEN UNCHANGED <<state, chunk_idx, script_items, script_idx, generator_ready, script_src>>
       ELSE IF script_idx + 1 < Len(script_items)
       THEN /\ script_idx' = script_idx + 1
            /\ UNCHANGED <<state, chunk_idx, script_items, generator_ready, script_src>>
       ELSE IF chunk_idx + 1 >= Len(chunks)
       THEN /\ chunk_idx' = chunk_idx + 1
            /\ script_items' = EndingScript
            /\ script_idx' = 0
            /\ script_src' = EndingSource(script_run_token)
            /\ UNCHANGED <<state, generator_ready>>
       ELSE /\ chunk_idx' = chunk_idx + 1
            /\ script_idx' = script_idx + 1
            /\ generator_ready' = FALSE
            /\ state' = "PROCESSING"
            /\ UNCHANGED <<script_items, script_src>>

\* render_interaction: the continue button is drawn in the else branch of
\* `if is_qa and not st.session_state.answered`
\* Mutant: the continue button is always drawn.
CanContinueAlways(item, ans) == TRUE
CanContinue(item, ans) == ~(IsQa(item) /\ ~ans)
ContinueClick ==
    /\ UNCHANGED <<normVars, genVars>>
    /\ state = "GAME_LOOP" /\ pc = "idle"
    /\ CanContinue(GetCurrentItem(script_items, script_idx), answered)
    /\ Advance
    /\ chunk_idx' <= Len(chunks) + MaxOverrun
    /\ SetCoord(GameLoopPrologue(Coord, chunks, chunk_idx))
    /\ Len(futures') <= MaxTasks
    /\ pc' = "run"
    /\ UNCHANGED <<chunks, clicked>>

\* ThreadPoolExecutor(max_workers=1): the one worker thread takes the
\* oldest task that was not cancelled, runs _generate_script_payload and
\* sets the future's result or exception
Running(fs) == { i \in DOMAIN fs : fs[i].state = "RUNNING" }
Queued(fs) == { i \in DOMAIN fs : fs[i].state = "PENDING" }
OldestQueued(fs) == CHOOSE i \in Queued(fs) : \A j \in Queued(fs) : i <= j
WorkerStart ==
    /\ UNCHANGED <<normVars, genVars>>
    /\ Running(futures) = {} /\ Queued(futures) # {}
    /\ futures' = [futures EXCEPT ![OldestQueued(futures)].state = "RUNNING"]
    /\ UNCHANGED <<sessVars, prefetch_cache, prefetch_future, prefetch_target_idx,
                   prefetch_task_run_token, script_run_token, ens, pc, clicked, script_src>>
WorkerFinish ==
    /\ UNCHANGED <<normVars, genVars>>
    /\ \E i \in Running(futures) :
         \/ futures' = [futures EXCEPT ![i].state = "FINISHED", ![i].outcome = "exception",
                                        ![i].fin = script_run_token]
         \/ \E items \in ScriptShapes :
               futures' = [futures EXCEPT ![i].state = "FINISHED", ![i].outcome = "script",
                                          ![i].fin = script_run_token,
                                          ![i].script = <<Script(items, futures[i].target, i)>>]
    /\ UNCHANGED <<sessVars, prefetch_cache, prefetch_future, prefetch_target_idx,
                   prefetch_task_run_token, script_run_token, ens, pc, clicked, script_src>>

(***************************************************************************)
(* Specification Spec: one browser session of app.py with its prefetch     *)
(* executor.                                                               *)
(***************************************************************************)
Init == AppIdle /\ NormIdle /\ GenIdle
Next ==
    \/ StartClick \/ GuideClick \/ SetupBack \/ Upload
    \/ ProcessingRun \/ TakeWaitDone \/ ForegroundDone \/ BackToCoverClick
    \/ GameLoopRun \/ ExitClick \/ OptionClick \/ ContinueClick
    \/ WorkerStart \/ WorkerFinish
Spec == Init /\ [][Next]_vars
\* The script reruns by itself after st.rerun(), a call that blocks in
\* future.result() or in the foreground generation returns once it can, and
\* the worker thread of the executor is scheduled: every model call ends.
FairSpec ==
    /\ Spec
    /\ WF_vars(ProcessingRun \/ TakeWaitDone \/ ForegroundDone)
    /\ WF_vars(WorkerStart \/ WorkerFinish)

(***************************************************************************)
(* Claims about generate_script (GenSpec, GenFairSpec).                    *)
(***************************************************************************)
Failed(resp) == resp.kind # "list"
AllFailedUpTo(n) == \A k \in 1..n : Failed(gen_log[k])
IsScriptItem(x) == x.type \in ItemTypes

\* C1: whatever the chunk text, the chunk index and the outcomes of the
\* model calls (an exception, a time-out, text that is no JSON, JSON that is
\* no list, a list of elements of any shape), generate_script raises nothing
\* and the script it returns is a non-empty list of items.
C1_NeverRaisesNonEmpty ==
    /\ ~gen_raised
    /\ gen_pc = "done" =>
          /\ Len(gen_result) >= 1
          /\ \A i \in 1..Len(gen_result) : IsScriptItem(gen_result[i])
C1_Witness ==
    /\ gen_pc = "done" /\ Len(gen_log) = 3
    /\ gen_log[1].kind = "raise" /\ gen_log[2].kind = "span"
    /\ gen_log[3] = [kind |-> "list", items |-> << [RawBlank EXCEPT !.isDict = FALSE] >>]
    /\ Strip(chunk_text) # <<>>

\* C4: a response that decodes to a list of which no item survives the
\* normalization makes the attempt a failed one: while attempts remain the
\* model is called again and no script is returned on that attempt.
NothingSurvives(resp) == resp.kind = "list" /\ NormalizeLoop(resp.items) = <<>>
C4_EmptyNormalizationRetried ==
    [][ ( /\ gen_pc = "loop"
          /\ gen_calls' = gen_calls + 1
          /\ NothingSurvives(gen_log'[Len(gen_log')])
          /\ gen_attempt' < max_retries + 1 )
        => gen_pc' = "loop" ]_vars

\* C5: when the first N model calls fail (N <= max_retries) and call N+1
\* returns a list, generate_script returns the normalization of that
\* response, not the fallback of the exhausted loop, after N+1 model calls.
C5_RetryThenSuccess ==
    \A n \in 0..max_retries :
        ( /\ Len(gen_log) > n
          /\ AllFailedUpTo(n)
          /\ ~Failed(gen_log[n + 1]) )
        => /\ gen_pc = "done"
           /\ gen_calls = n + 1
           /\ gen_result = NormalizeScript(gen_log[n + 1].items)
           /\ NormalizeLoop(gen_log[n + 1].items) # <<>>
                 => gen_result = NormalizeLoop(gen_log[n + 1].items)
           /\ gen_result # ExhaustedScript(Strip(chunk_text), chunk_index, last_err)
C5_Witness ==
    /\ gen_pc = "done" /\ max_retries = 2 /\ Len(gen_log) = 3
    /\ AllFailedUpTo(2) /\ ~Failed(gen_log[3])
    /\ Len(gen_result) = 1 /\ gen_result[1].type = T_quiz

\* C6: when every one of the max_retries + 1 model calls fails, the result
\* is one dialogue: the apology, then the first 260 characters of the
\* trimmed chunk text as a hint.
TrimmedHint ==
    [i \in 1..(IF Len(Strip(chunk_text)) < 260 THEN Len(Strip(chunk_text)) ELSE 260)
        |-> Strip(chunk_text)[i]]
C6_AllFailedFallback ==
    ( /\ gen_pc = "done"
      /\ Len(gen_log) = max_retries + 1
      /\ AllFailedUpTo(max_retries + 1) )
    => /\ Len(gen_result) = 1
       /\ gen_result[1].type = T_dialogue
       /\ gen_result[1].text =
             AllFailedMsg \o ErrSuffix(gen_log[max_retries + 1].err)
                \o HintOpen \o TrimmedHint \o HintClose
C6_Witness ==
    /\ gen_pc = "done" /\ max_retries = 2 /\ Len(gen_log) = 3 /\ AllFailedUpTo(3)
    /\ Len(Strip(chunk_text)) > 260

\* C7: one call of generate_script calls the model at most max_retries + 1
\* times (3 times with the default of 2 retries), calls it no more once an
\* attempt has returned a script, and ends.
C7_BoundedCallsAndEnds ==
    /\ [](gen_calls <= max_retries + 1)
    /\ [](max_retries = DefaultMaxRetries => gen_calls <= 3)
    /\ [][gen_pc = "done" => gen_calls' = gen_calls]_vars
    /\ <>(gen_pc = "done")
C7_Witness ==
    gen_pc = "done" /\ max_retries = DefaultMaxRetries /\ gen_calls = 3

(***************************************************************************)
(* Claims about _normalize_script (NormSpec).                              *)
(***************************************************************************)
InOptions(x, options) == \E k \in 1..Len(options) : options[k] = x
LabelInRange(x, options) ==
    LET ix == OptionLabelToIndex(x)
    IN  ix # <<>> /\ 0 <= ix[1] /\ ix[1] < Len(options)
\* The raw answer of element `it` names no option, by label or by text.
MatchesNothing(it, options) ==
    LET raw     == Strip(StrOr(it.correct_answer, <<>>))
        cleaned == NormalizeOptionText(Str(raw))
    IN  /\ raw # <<>>
        /\ ~LabelInRange(raw, options)
        /\ ~LabelInRange(cleaned, options)
        /\ ~InOptions(cleaned, options)

\* C3: every quiz of the normalized script has a correct_answer that is one
\* of its own options; a raw answer that matches no option by label or by
\* text gives the first option.
C3_CorrectAnswerAmongOptions ==
    norm_pc = "done" =>
        /\ \A i \in 1..Len(norm_out) :
              norm_out[i].type = T_quiz =>
                  InOptions(norm_out[i].correct_answer, norm_out[i].options)
        /\ \A i \in 1..Len(norm_in) :
              \A q \in { NormalizeItem(norm_in[i]) } :
                  ( /\ q # <<>> /\ q[1].type = T_quiz
                    /\ MatchesNothing(norm_in[i], q[1].options) )
                  => q[1].correct_answer = q[1].options[1]
(***************************************************************************)
(* The prefetch coordinator (Spec).                                        *)
(***************************************************************************)
Outstanding(fs) == Queued(fs) \cup Running(fs)
CurrentRun(fs, tok) == { i \in DOMAIN fs : fs[i].run = tok }
Stale(fs, tok) == { i \in DOMAIN fs : fs[i].run < tok }

\* C2: once the run token has been bumped, the script of a task submitted
\* under an earlier token is in no cache entry, and no script that
\* _take_prefetched_script has handed to PROCESSING comes from a task of an
\* earlier token than the one in force when it was taken.
C2_NoStaleResult ==
    /\ \A k \in DOMAIN prefetch_cache :
          /\ prefetch_cache[k].by \in CurrentRun(futures, script_run_token)
          /\ prefetch_cache[k].chunk = k
    /\ script_src.by # 0 => script_src.run = script_src.at
\* A task of an earlier run token has ended with a script under the current
\* token, and a later task of the current token ended after it and was
\* collected into the cache.
C2_Witness ==
    \E i \in Stale(futures, script_run_token) :
        /\ futures[i].state = "FINISHED" /\ futures[i].outcome = "script"
        /\ futures[i].fin = script_run_token
        /\ \E k \in DOMAIN prefetch_cache : prefetch_cache[k].by > i

\* C8 as stated: when a call of _ensure_next_chunk_prefetch has submitted a
\* task and the next call comes in succession with the same index, the
\* second call submits nothing, so the two calls submit exactly one task.
C8_SecondEnsureSubmitsNothing == ens.prev # 0 => ens.task = 0
\* C8, amended: the second call submits nothing while the first task is
\* queued or executing or has ended with a script; it submits a second task
\* exactly when the first task has ended with an exception before it.
C8_SecondEnsureSubmitsOnlyAfterFailure ==
    ens.prev # 0 => (ens.task # 0 <=> ens.prevfailed)
\* The first task had ended with a script before the second call, which
\* therefore collected it and submitted nothing.
C8_Witness ==
    /\ ens.prev # 0 /\ ens.task = 0
    /\ \E k \in DOMAIN prefetch_cache : prefetch_cache[k].by = ens.prev

\* C9 as stated: at most one prefetch task is queued or executing at any
\* time.
C9_AtMostOneOutstanding == Cardinality(Outstanding(futures)) <= 1
\* C9, amended: at most one task submitted under the current run token is
\* queued or executing, and it is the one in the pending slot; a task of an
\* earlier run token is never queued, but one such task, which cancel()
\* could not stop, may still be executing.
C9_AtMostOneOutstandingPerRun ==
    /\ \A i \in Outstanding(futures) \cap CurrentRun(futures, script_run_token) :
          prefetch_future = <<i>>
    /\ Queued(futures) \subseteq CurrentRun(futures, script_run_token)
    /\ Cardinality(Running(futures)) <= 1
\* A task of the current run token is queued behind a task of an earlier
\* run token that is still executing.
C9_Witness ==
    /\ Queued(futures) \cap CurrentRun(futures, script_run_token) # {}
    /\ Running(futures) \cap Stale(futures, script_run_token) # {}

\* C10 as stated: the foreground generation of PROCESSING is never in
\* progress while a prefetch task is executing.
C10_NoOverlap == ~(pc = "fg" /\ Running(futures) # {})
\* C10, amended: the foreground generation of PROCESSING is never in
\* progress while a prefetch task submitted under the current run token is
\* queued or executing; only a task from before the last bump of the run
\* token can be executing beside it.
C10_NoOverlapWithinRun ==
    pc = "fg" => Outstanding(futures) \cap CurrentRun(futures, script_run_token) = {}
\* The foreground generates a chunk after the prefetch task for that chunk,
\* submitted under the current run token, has ended with an exception.
C10_Witness ==
    /\ pc = "fg"
    /\ \E i \in CurrentRun(futures, script_run_token) :
          futures[i].target = chunk_idx /\ futures[i].outcome = "exception"
\* C11: under one run token no chunk is generated twice at a time: the
\* foreground generation of chunk_idx is not in progress while a prefetch
\* task of the current run token for chunk_idx is queued or executing, and
\* no two tasks of the current run token that are queued or executing have
\* the same target.
C11_NoDoubleGenerationOfAChunk ==
    /\ pc = "fg" =>
          \A i \in Outstanding(futures) \cap CurrentRun(futures, script_run_token) :
              futures[i].target # chunk_idx
    /\ \A i, j \in Outstanding(futures) \cap CurrentRun(futures, script_run_token) :
          futures[i].target = futures[j].target => i = j
\* PROCESSING needs chunk_idx while the prefetch task for it is executing:
\* it waits in future.result().
C11_Witness ==
    /\ state = "PROCESSING" /\ pc = "take_wait"
    /\ \E i \in Running(futures) \cap CurrentRun(futures, script_run_token) :
          futures[i].target = chunk_idx /\ prefetch_future = <<i>>
\* C12: a script of a background task is handed to playback at most once.
\* Whenever _take_prefetched_script(i) returns a script (at once, or after
\* its wait in future.result()), the state it leaves has that script in no
\* cache entry and its task not in the pending slot, and a take(i) that
\* follows at once returns None without waiting; and while a prefetched
\* script is played it is in neither the cache nor the slot.
NotHeld(p, script) ==
    /\ \A k \in DOMAIN p.prefetch_cache : p.prefetch_cache[k] # script
    /\ p.prefetch_future # <<script.by>>
ReturnsNone(r) == r.script = <<>> /\ ~r.wait
Consumed(p, script, idx) ==
    NotHeld(p, script) /\ ReturnsNone(TakePrefetchedScript(p, idx, TRUE))
TakeConsumes(r, idx) == r.script # <<>> => Consumed(r.p, r.script[1], idx)
WaitConsumes(p, script, idx) == script # <<>> => Consumed(ClearSlot(p), script[1], idx)
C12_ConsumedAtMostOnce ==
    /\ \A idx \in 0..MaxChunks : TakeConsumes(TakePrefetchedScript(Coord, idx, TRUE), idx)
    /\ (pc = "take_wait" /\ FutureDone(SlotFuture(Coord)))
          => WaitConsumes(Coord, FutureResult(SlotFuture(Coord)), chunk_idx)
    /\ script_src.by # 0 =>
          /\ \A k \in DOMAIN prefetch_cache : prefetch_cache[k].by # script_src.by
          /\ prefetch_future # <<script_src.by>>
\* PROCESSING has just applied the script that a prefetch task made for the
\* chunk now played.
C12_Witness ==
    /\ state = "GAME_LOOP" /\ pc = "run"
    /\ script_src.by # 0 /\ script_src.chunk = chunk_idx
    /\ futures[script_src.by].state = "FINISHED"
\* C13: when PROCESSING runs for chunk i and a script for i is in the cache,
\* or the pending task for i under the current run token has ended with a
\* script, that run (or the end of its wait) applies this script and goes
\* to GAME_LOOP; and the foreground generation is never in progress for a
\* chunk for which a task of the current run token has ended with a script.
SlotReady(p, idx) ==
    /\ p.prefetch_future # <<>> /\ p.prefetch_target_idx = <<idx>>
    /\ TokenOr(p.prefetch_task_run_token) = p.script_run_token
    /\ FutureResult(SlotFuture(p)) # <<>>
PrefetchReady(p, idx) == idx \in DOMAIN p.prefetch_cache \/ SlotReady(p, idx)
ReadyScript(p, idx) ==
    IF idx \in DOMAIN p.prefetch_cache THEN p.prefetch_cache[idx]
    ELSE FutureResult(SlotFuture(p))[1]
ProcessingSteps ==
    /\ state = "PROCESSING" /\ pc \in {"run", "take_wait"} /\ chunks # <<>>
    /\ (state' # state \/ pc' # pc)
C13_PrefetchedScriptIsApplied ==
    /\ [](pc = "fg" =>
             ~\E i \in CurrentRun(futures, script_run_token) :
                 futures[i].target = chunk_idx /\ futures[i].outcome = "script")
    /\ [][(ProcessingSteps /\ PrefetchReady(Coord, Clamp(chunk_idx, Len(chunks))))
             => /\ state' = "GAME_LOOP" /\ generator_ready'
                /\ script_items' = ReadyScript(Coord, Clamp(chunk_idx, Len(chunks))).items
                /\ script_src'.by = ReadyScript(Coord, Clamp(chunk_idx, Len(chunks))).by]_vars
\* The page plays, from its first item, the script that a prefetch task
\* made for the chunk.
C13_Witness ==
    /\ state = "GAME_LOOP" /\ pc = "idle" /\ script_idx = 0 /\ chunk_idx > 0
    /\ script_src.by # 0 /\ script_src.chunk = chunk_idx
    /\ futures[script_src.by].target = chunk_idx
\* C14: between two resets the scripts are applied for the chunks 0, 1,
\* 2, ... in turn: every step of PROCESSING that applies a script applies
\* the script of the chunk that follows the one applied last; and no
\* generation is ahead of that: the foreground generates the chunk after
\* the last applied one, and every task of the current run token targets a
\* chunk no further than one after the last applied one.
LastApplied ==
    IF script_items = <<>> THEN 0 - 1
    ELSE IF script_src.chunk >= 0 THEN script_src.chunk
    ELSE Len(chunks) - 1
ApplyStep == state = "PROCESSING" /\ state' = "GAME_LOOP"
C14_ChunksInIndexOrder ==
    /\ [][ApplyStep => /\ chunk_idx' = LastApplied + 1
                       /\ script_src'.chunk = chunk_idx'
                       /\ chunk_idx' < Len(chunks')]_vars
    /\ [](pc = "fg" => chunk_idx = LastApplied + 1)
    /\ [](\A i \in CurrentRun(futures, script_run_token) :
             futures[i].target <= LastApplied + 1)
\* The script of the last chunk of a document of several chunks has just
\* been applied.
C14_Witness ==
    /\ state = "GAME_LOOP" /\ pc = "run" /\ Len(chunks) >= 2
    /\ script_src.chunk = Len(chunks) - 1 /\ chunk_idx = Len(chunks) - 1
\* C15: every step that submits a task submits one task, whose target is
\* the index after the chunk played when _ensure_next_chunk_prefetch was
\* called (the chunk of the page in GAME_LOOP, the chunk just applied in
\* PROCESSING) and is an index of the chunk list of that moment; no task
\* ever targets chunk 0.
LaunchIdx == IF state = "GAME_LOOP" THEN chunk_idx ELSE chunk_idx'
LaunchChunks == IF state = "GAME_LOOP" THEN chunks ELSE chunks'
C15_TargetIsNextChunk ==
    /\ [][Len(futures') # Len(futures) =>
             /\ Len(futures') = Len(futures) + 1
             /\ futures'[Len(futures')].target = LaunchIdx + 1
             /\ futures'[Len(futures')].target < Len(LaunchChunks)]_vars
    /\ [](\A i \in DOMAIN futures : futures[i].target >= 1)
\* A task for the chunk after the one played has just been submitted and
\* is queued.
C15_Witness ==
    /\ state = "GAME_LOOP" /\ ens.task # 0 /\ ens.idx = chunk_idx
    /\ futures[ens.task].state = "PENDING"
    /\ futures[ens.task].target = chunk_idx + 1
    /\ prefetch_target_idx = <<chunk_idx + 1>>
\* C16: the prefetch cache holds at most one entry in every reachable
\* state, and the entry is for the chunk after the one played (for the
\* chunk itself in the run of PROCESSING that is about to take it).
C16_CacheHoldsAtMostOne ==
    /\ Cardinality(DOMAIN prefetch_cache) <= 1
    /\ \A k \in DOMAIN prefetch_cache :
          \/ k = chunk_idx + 1
          \/ k = chunk_idx /\ state = "PROCESSING" /\ pc = "run"
\* The cache holds the script of chunk 2, collected after the script of
\* chunk 1 had been in the cache and was taken out.
C16_Witness ==
    /\ DOMAIN prefetch_cache = {2}
    /\ script_src.chunk = 1 /\ script_src.by # 0
(***************************************************************************)
(* The normalizer (NormSpec), continued.                                   *)
(***************************************************************************)
\* The dict of an output item read again as an input element: it.get(key)
\* is the string (or the list of strings) the normalizer has written, and
\* None for a key the item does not have.
GetField(item, key) ==
    IF key \notin DOMAIN item THEN NoneV
    ELSE IF key = "options" THEN ListV([k \in 1..Len(item.options) |-> Str(item.options[k])])
    ELSE Str(item[key])
AsInput(item) ==
    [isDict |-> TRUE, type |-> GetField(item, "type"), title |-> GetField(item, "title"),
     speaker |-> GetField(item, "speaker"), text |-> GetField(item, "text"),
     emotion |-> GetField(item, "emotion"), question |-> GetField(item, "question"),
     options |-> GetField(item, "options"),
     correct_answer |-> GetField(item, "correct_answer"),
     feedback_correct |-> GetField(item, "feedback_correct"),
     feedback_wrong |-> GetField(item, "feedback_wrong"),
     explanation |-> GetField(item, "explanation"), prompt |-> GetField(item, "prompt")]
Refeed(script) == [k \in 1..Len(script) |-> AsInput(script[k])]

\* C17: normalization is idempotent: the output of _normalize_script, fed
\* back as its input, gives the same script again.
C17_NormalizeIdempotent ==
    norm_pc = "done" => NormalizeScript(Refeed(norm_out)) = norm_out
\* C18: when the input list is empty, or every element of it has no type or
\* a type that is none of the four names, _normalize_script returns exactly
\* one item, the fixed fallback dialogue.
TypeNames == {"dialogue", "quiz", "choice", "sub_head"}
NoKnownType(it) ==
    \/ ~it.isDict
    \/ it.type = NoneV
    \/ it.type.t = "str" /\ \A k \in DOMAIN it.type.s : it.type.s[k] \notin TypeNames
GenericFallback ==
    << [type |-> <<"dialogue">>, speaker |-> <<"<Nana>">>,
        text |-> <<"<too-hardcore>">>, emotion |-> <<"char_shy">>] >>
C18_NothingRecognizedGivesFallback ==
    (norm_pc = "done" /\ \A k \in DOMAIN norm_in : NoKnownType(norm_in[k]))
        => norm_out = GenericFallback
\* A list of two elements, neither of a known type, has been normalized.
C18_Witness ==
    /\ norm_pc = "done" /\ Len(norm_in) = 2 /\ norm_in[1] # norm_in[2]
    /\ \A k \in DOMAIN norm_in : NoKnownType(norm_in[k])
    /\ Len(norm_out) = 1
\* C19: the items are handled one by one and in order.  When at least one
\* element of the input is well formed, the output is the concatenation,
\* in input order, of what each well-formed element gives when it is
\* normalized alone (one item) and of nothing for each malformed element
\* (no dict, unknown type, blank required field, fewer than two options);
\* so the output is no longer than the input.
NonBlank(v) == v.t = "str" /\ \E k \in DOMAIN v.s : ~IsSpace(v.s[k])
TypeIs(it, name) ==
    it.type.t = "str" /\ SelectSeq(it.type.s, LAMBDA c : ~IsSpace(c)) = <<name>>
TwoOptions(it) == it.options.t = "list" /\ Len(it.options.l) >= 2
WellFormed(it) ==
    /\ it.isDict
    /\ \/ TypeIs(it, "sub_head") /\ NonBlank(it.title)
       \/ TypeIs(it, "dialogue") /\ NonBlank(it.text)
       \/ TypeIs(it, "quiz") /\ NonBlank(it.question) /\ TwoOptions(it)
       \/ TypeIs(it, "choice") /\ TwoOptions(it)
Alone(it) == IF WellFormed(it) THEN NormalizeScript(<<it>>) ELSE <<>>
RECURSIVE EachAlone(_)
EachAlone(items) ==
    IF items = <<>> THEN <<>> ELSE Alone(Head(items)) \o EachAlone(Tail(items))
C19_ItemsIndependentInOrder ==
    (norm_pc = "done" /\ \E k \in DOMAIN norm_in : WellFormed(norm_in[k]))
        => /\ norm_out = EachAlone(norm_in)
           /\ \A k \in DOMAIN norm_in : Len(Alone(norm_in[k])) <= 1
           /\ Len(norm_out) <= Len(norm_in)
\* A malformed element before a well-formed one: the output is the one
\* item of the second.
C19_Witness ==
    /\ norm_pc = "done" /\ Len(norm_in) = 2
    /\ ~WellFormed(norm_in[1]) /\ norm_in[1].isDict /\ norm_in[1].type # NoneV
    /\ WellFormed(norm_in[2])
    /\ Len(norm_out) = 1
\* C20: every item of a script returned by _normalize_script has one of the
\* four types and the fields its type requires: a sub_head a title, a
\* dialogue a text, a quiz a question, each non-empty and without white
\* space at either end; a quiz and a choice at least two options.
Trimmed(s) == s # <<>> /\ ~IsSpace(s[1]) /\ ~IsSpace(s[Len(s)])
HasRequiredFields(item) ==
    \/ item.type = <<"sub_head">> /\ Trimmed(item.title)
    \/ item.type = <<"dialogue">> /\ Trimmed(item.text)
    \/ item.type = <<"quiz">> /\ Trimmed(item.question) /\ Len(item.options) >= 2
    \/ item.type = <<"choice">> /\ Len(item.options) >= 2
C20_RequiredFields ==
    norm_pc = "done" => \A k \in DOMAIN norm_out : HasRequiredFields(norm_out[k])
\* A script of a quiz and a choice has been returned.
C20_Witness ==
    /\ norm_pc = "done" /\ Len(norm_out) = 2
    /\ {norm_out[1].type, norm_out[2].type} = {<<"quiz">>, <<"choice">>}
\* C21: every dialogue, quiz and choice of a returned script has an emotion
\* of the four keys; a well-formed input item whose emotion is one of the
\* four keys (white space around it aside) keeps it, and one whose emotion
\* is missing or anything else gets char_normal; the fallback dialogue has
\* one of the four keys for every chunk index.
FourEmotions == {"char_normal", "char_happy", "char_angry", "char_shy"}
EmotionWord(v) ==
    IF v.t = "str" THEN SelectSeq(v.s, LAMBDA c : ~IsSpace(c)) ELSE <<>>
ExpectedEmotion(it) ==
    IF Len(EmotionWord(it.emotion)) = 1 /\ EmotionWord(it.emotion)[1] \in FourEmotions
    THEN EmotionWord(it.emotion)
    ELSE <<"char_normal">>
Emotional(item) == item.type \in {<<"dialogue">>, <<"quiz">>, <<"choice">>}
EmotionOk(item) == Len(item.emotion) = 1 /\ item.emotion[1] \in FourEmotions
EmotionFollowsInput(it, script) ==
    (Len(script) = 1 /\ Emotional(script[1])) => script[1].emotion = ExpectedEmotion(it)
C21_EmotionClamped ==
    norm_pc = "done" =>
        /\ \A k \in DOMAIN norm_out : Emotional(norm_out[k]) => EmotionOk(norm_out[k])
        /\ \A k \in DOMAIN norm_in :
              WellFormed(norm_in[k]) => EmotionFollowsInput(norm_in[k], Alone(norm_in[k]))
        /\ \A i \in (0 - 1)..2 : EmotionOk(FallbackScript(<<"msg">>, i, <<>>)[1])
\* A dialogue with an emotion outside the set and a choice with char_shy
\* have been normalized: char_normal and char_shy.
C21_Witness ==
    /\ norm_pc = "done" /\ Len(norm_in) = 2 /\ Len(norm_out) = 2
    /\ norm_in[1].emotion = Str(<<"bogus">>) /\ norm_out[1].emotion = <<"char_normal">>
    /\ norm_in[2].emotion = Str(<<"char_shy">>) /\ norm_out[2].emotion = <<"char_shy">>
(***************************************************************************)
(* The session (Spec), continued.                                          *)
(***************************************************************************)
\* C22: whenever the screen is GAME_LOOP and generator_ready is true,
\* script_items is not empty and script_idx is an index of it, so that
\* get_current_item returns an item.
C22_CurrentItemExists ==
    (state = "GAME_LOOP" /\ generator_ready) =>
        /\ script_items # <<>>
        /\ 0 <= script_idx /\ script_idx < Len(script_items)
        /\ GetCurrentItem(script_items, script_idx) # <<>>
\* The page shows the ending dialogue after the last chunk was played to
\* its end.
C22_Witness ==
    /\ state = "GAME_LOOP" /\ pc = "idle" /\ generator_ready
    /\ chunk_idx >= Len(chunks) /\ script_items = EndingScript /\ script_idx = 0
\* The step of PROCESSING that shows an error applies no script, and the
\* screen is still PROCESSING with generator_ready false.
ErrorShownStays ==
    /\ [](pc = "error" => state = "PROCESSING" /\ ~generator_ready)
    /\ [][pc' = "error" => UNCHANGED <<state, script_items, script_idx, script_src>>]_vars
\* C23: when the PDF cannot be loaded or gives no chunk, or the foreground
\* generation raises at construction, PROCESSING shows the error and stays,
\* no script is applied, and the press of the one button that is offered
\* then takes the session to LANDING, never on to GAME_LOOP.
C23_ErrorLeavesOnlyByReset ==
    /\ ErrorShownStays
    /\ [][(clicked /\ state' # state) => state' = "LANDING"]_vars
(***************************************************************************)
(* The generator (GenSpec), continued.                                     *)
(***************************************************************************)
\* C24: for a chunk text that is empty or all white space, generate_script
\* makes no model call and returns one dialogue whose text is the message
\* for an empty chunk, which is not the message of the exhausted loop.
BlankText(s) == \A k \in DOMAIN s : IsSpace(s[k])
C24_BlankChunkNoModelCall ==
    BlankText(chunk_text) =>
        /\ gen_calls = 0
        /\ gen_pc \in {"call", "done"}
        /\ gen_pc = "done" =>
              /\ ~gen_raised
              /\ Len(gen_result) = 1
              /\ gen_result[1].type = <<"dialogue">>
              /\ gen_result[1].text = <<"<chunk-is-empty>">>
              /\ gen_result[1].text[1] # AllFailedMsg[1]
\* The call for a chunk of a blank and a line feed has returned.
C24_Witness ==
    /\ gen_pc = "done" /\ chunk_text # <<>> /\ BlankText(chunk_text)
    /\ gen_calls = 0 /\ Len(gen_result) = 1
(***************************************************************************)
(* The session (Spec): reset.                                              *)
(***************************************************************************)
\* The steps that run _reset_session(): the ones that leave PROCESSING or
\* GAME_LOOP for LANDING.
ResetStep == state \in {"PROCESSING", "GAME_LOOP"} /\ state' = "LANDING"
SlotEmpty ==
    /\ prefetch_future = <<>>
    /\ prefetch_target_idx = <<>>
    /\ prefetch_task_run_token = <<>>
\* C25: _reset_session leaves the cache and the pending slot empty and adds
\* exactly one to script_run_token, and no step makes script_run_token
\* smaller.
C25_ResetClearsAndBumps ==
    /\ [][ResetStep => /\ DOMAIN prefetch_cache' = {}
                       /\ SlotEmpty'
                       /\ script_run_token' = script_run_token + 1]_vars
    /\ [][script_run_token' >= script_run_token]_vars
\* A reset has run while a task was queued: the task is cancelled, the cache
\* and the slot are empty and the token is past the one of the first run.
C25_Witness ==
    /\ state = "LANDING" /\ script_run_token >= 2
    /\ DOMAIN prefetch_cache = {} /\ SlotEmpty
    /\ \E i \in DOMAIN futures : futures[i].state = "CANCELLED"
(***************************************************************************)
(* The session (Spec): a background task that raises.                      *)
(***************************************************************************)
\* The pending slot holds a task that has ended with an exception.
FailedInSlot(p) ==
    /\ p.prefetch_future # <<>> /\ p.prefetch_target_idx # <<>>
    /\ SlotFuture(p).state = "FINISHED" /\ SlotFuture(p).outcome = "exception"
\* What _collect_prefetch_if_ready makes (q) of a state p with FailedInSlot.
FailureDropped(p, q) ==
    /\ q.prefetch_future = <<>>
    /\ q.prefetch_target_idx = <<>>
    /\ q.prefetch_task_run_token = <<>>
    /\ q.prefetch_cache = p.prefetch_cache
    /\ q.futures = p.futures
    /\ q.script_run_token = p.script_run_token
CollectDropsFailure ==
    FailedInSlot(Coord) => FailureDropped(Coord, CollectPrefetchIfReady(Coord))
\* Task i, made for chunk k under the current run token, has ended with an
\* exception and is not in the pending slot any more.
FailedAndCollected(i, k) ==
    /\ futures[i].state = "FINISHED" /\ futures[i].outcome = "exception"
    /\ futures[i].target = k /\ futures[i].run = script_run_token
    /\ prefetch_future # <<i>>
\* A run of PROCESSING for the chunk it clamps chunk_idx to.
RequestFor(k) ==
    /\ state = "PROCESSING" /\ pc = "run" /\ chunks # <<>>
    /\ k = Clamp(chunk_idx, Len(chunks))
\* A task submitted after task i for the same chunk under the same token.
Resubmitted(i, k) ==
    \E j \in DOMAIN futures :
        j > i /\ futures[j].target = k /\ futures[j].run = futures[i].run
\* The statement as first made: once the failure of the task for chunk k has
\* been collected, the request for k goes to the foreground generation.
C26_FailureThenForeground ==
    [][\A k \in 0..MaxChunks :
          (RequestFor(k) /\ \E i \in DOMAIN futures : FailedAndCollected(i, k))
              => pc' = "fg"]_vars
\* C26: _collect_prefetch_if_ready on a task that has ended with an
\* exception empties the pending slot and leaves the cache as it is; the
\* request for that chunk that makes this collection finds nothing and goes
\* to the foreground generation, and so does a later request for it unless
\* _ensure_next_chunk_prefetch has submitted a task for the chunk again in
\* between.
C26_FailureThenForegroundOrResubmitted ==
    /\ []CollectDropsFailure
    /\ [][\A k \in 0..MaxChunks :
             (RequestFor(k) /\ FailedInSlot(Coord) /\ prefetch_target_idx = <<k>>)
                 => pc' = "fg" /\ prefetch_future' = <<>>
                               /\ prefetch_cache' = prefetch_cache]_vars
    /\ [][\A k \in 0..MaxChunks : \A i \in DOMAIN futures :
             (RequestFor(k) /\ FailedAndCollected(i, k) /\ ~Resubmitted(i, k))
                 => pc' = "fg"]_vars
\* The task for the chunk now wanted has ended with an exception, no task
\* was submitted for it again, and PROCESSING generates in the foreground.
C26_Witness ==
    /\ state = "PROCESSING" /\ pc = "fg"
    /\ prefetch_future = <<>>
    /\ \E i \in DOMAIN futures :
          FailedAndCollected(i, chunk_idx) /\ ~Resubmitted(i, chunk_idx)
          /\ futures[i].fin = script_run_token
(***************************************************************************)
(* The session (FairSpec): the wait of PROCESSING for a running task.      *)
(***************************************************************************)
\* The task in the pending slot is for chunk k under the current run token
\* and has not ended.
InFlightFor(k) ==
    /\ prefetch_future # <<>> /\ prefetch_target_idx = <<k>>
    /\ TokenOr(prefetch_task_run_token) = script_run_token
    /\ ~FutureDone(SlotFuture(Coord))
\* Room for the one submission that the end of PROCESSING makes.
RoomForTask == Len(futures) < MaxTasks
\* What the return of the waiting call does, for the task i it waited for.
WaitReturns(i) ==
    /\ FutureDone(futures[i])
    /\ prefetch_future' # <<i>>
    /\ IF futures[i].outcome = "script"
       THEN /\ script_items' = futures[i].script[1].items
            /\ script_src'.by = i
            /\ state' = "GAME_LOOP"
       ELSE /\ pc' = "fg"
            /\ prefetch_future' = <<>> /\ prefetch_target_idx' = <<>>
            /\ prefetch_task_run_token' = <<>>
            /\ UNCHANGED <<state, script_items, prefetch_cache>>
\* C27: _take_prefetched_script(i, wait_if_running=True), called while the
\* task for i under the current run token is in flight, waits for it; when
\* the worker is scheduled and every model call ends the call returns, with
\* the script of that task, or with None when the task raised, and the task
\* is not in the pending slot any more; and a PROCESSING step of a session
\* with chunks comes to GAME_LOOP unless the generator cannot be built.
C27_WaitingTakeReturns ==
    /\ [](pc = "take_wait" =>
            /\ prefetch_future # <<>> /\ prefetch_target_idx = <<chunk_idx>>
            /\ TokenOr(prefetch_task_run_token) = script_run_token
            /\ SlotFuture(Coord).state # "CANCELLED")
    /\ [][\A k \in 0..MaxChunks :
             (RequestFor(k) /\ InFlightFor(k) /\ <<pc, state>>' # <<pc, state>>)
                 => pc' = "take_wait" /\ UNCHANGED <<prefetch_future, state>>]_vars
    /\ [][(pc = "take_wait" /\ pc' # "take_wait") => WaitReturns(prefetch_future[1])]_vars
    /\ (pc = "take_wait") ~> (pc # "take_wait" \/ ~RoomForTask)
    /\ (state = "PROCESSING" /\ chunks # <<>> /\ ~clicked /\ RoomForTask)
          ~> (state = "GAME_LOOP" \/ pc = "error")
\* PROCESSING is blocked in future.result() on a task for chunk_idx that
\* waits in the queue of the executor behind a task of an earlier run.
C27_Witness ==
    /\ state = "PROCESSING" /\ pc = "take_wait" /\ RoomForTask
    /\ InFlightFor(chunk_idx)
    /\ SlotFuture(Coord).state = "PENDING"
    /\ \E j \in Running(futures) : futures[j].run < script_run_token
(***************************************************************************)
(* The normalizer (NormSpec): the correct answer of a quiz.                *)
(***************************************************************************)
\* The item of norm_out made of the well-formed element k of norm_in.
Kept(k) == Cardinality({ j \in 1..k : WellFormed(norm_in[j]) })
IsQuizAt(k) == WellFormed(norm_in[k]) /\ TypeIs(norm_in[k], "quiz")
QuizOut(k) == norm_out[Kept(k)]
\* The raw answers that are labels, and the position each one denotes.
LabelPosition ==
    [a \in { Str(<<"B">>), Str(<<"(", "b", ")">>), Str(<<"2", ".">>), Str(<<"D">>),
             Str(<<" ", "(", " ", "1", " ", ")", ":">>) } |->
        IF a = Str(<<"D">>) THEN 4
        ELSE IF a = Str(<<" ", "(", " ", "1", " ", ")", ":">>) THEN 1
        ELSE 2]
LabelResolved(it, out) ==
    (/\ it.correct_answer \in DOMAIN LabelPosition
     /\ LabelPosition[it.correct_answer] <= Len(it.options.l))
        => /\ out.correct_answer = out.options[LabelPosition[it.correct_answer]]
           /\ out.correct_answer =
                 NormalizeOptionText(it.options.l[LabelPosition[it.correct_answer]])
\* C28: a raw correct_answer that is a label for position k of the option
\* list (A or 1 the first) resolves to the cleaned option at position k,
\* also when another cleaned option has the label as its text.
C28_LabelPicksOption ==
    norm_pc = "done" =>
        \A k \in DOMAIN norm_in :
            IsQuizAt(k) => /\ Kept(k) \in DOMAIN norm_out
                           /\ norm_out[Kept(k)].type = <<"quiz">>
                           /\ LabelResolved(norm_in[k], QuizOut(k))
\* The options are B and Foo and the answer is B: the second option is
\* taken, not the option whose text is B.
C28_Witness ==
    /\ norm_pc = "done" /\ Len(norm_in) = 1 /\ IsQuizAt(1)
    /\ norm_in[1].correct_answer = Str(<<"B">>)
    /\ norm_out[1].options = << <<"B">>, <<"Foo">> >>
    /\ norm_out[1].correct_answer = <<"Foo">>

\* No index, or one outside of 0 .. n-1.
NotInRange(idx, n) == idx = <<>> \/ idx[1] < 0 \/ idx[1] >= n
NoOptionIs(text, options) == \A j \in DOMAIN options : options[j] # text
\* The result for the stripped raw answer and its de-prefixed text, when
\* the label is looked for in the raw answer only.
VerbatimUnlessRawLabel(raw, cleaned, out) ==
    IF raw = <<>> THEN out.correct_answer = out.options[1]
    ELSE (/\ NotInRange(OptionLabelToIndex(raw), Len(out.options))
          /\ NoOptionIs(raw, out.options) /\ NoOptionIs(cleaned, out.options))
            => out.correct_answer = cleaned /\ cleaned # <<>>
\* C29: a raw correct_answer that is not an in-range label and equals no
\* cleaned option, with or without its prefix, resolves to its de-prefixed
\* text, which is not empty; the first option is the result for an answer
\* that is missing or blank.
C29_VerbatimUnlessRawLabel ==
    norm_pc = "done" =>
        \A k \in DOMAIN norm_in :
            IsQuizAt(k) =>
                VerbatimUnlessRawLabel(Strip(StrOr(norm_in[k].correct_answer, <<>>)),
                                       NormalizeOptionText(norm_in[k].correct_answer),
                                       QuizOut(k))
\* What the code does: lines 288-291 look for a label in the de-prefixed
\* text as well, before any comparison of texts.
VerbatimUnlessLabel(raw, cleaned, out) ==
    IF raw = <<>> THEN out.correct_answer = out.options[1]
    ELSE (/\ NotInRange(OptionLabelToIndex(raw), Len(out.options))
          /\ NotInRange(OptionLabelToIndex(cleaned), Len(out.options))
          /\ NoOptionIs(cleaned, out.options))
            => out.correct_answer = cleaned /\ cleaned # <<>>
VerbatimUnlessLabelTwice ==
    norm_pc = "done" =>
        \A k \in DOMAIN norm_in :
            IsQuizAt(k) =>
                VerbatimUnlessLabel(Strip(StrOr(norm_in[k].correct_answer, <<>>)),
                                    NormalizeOptionText(norm_in[k].correct_answer),
                                    QuizOut(k))
\* The answer "B. Bar" with the options None and "2) B": the text Bar is
\* the correct answer, and it is no option.
VerbatimWitness ==
    /\ norm_pc = "done" /\ Len(norm_in) = 1 /\ IsQuizAt(1)
    /\ norm_in[1].correct_answer = Str(<<"B", ".", " ", "Bar">>)
    /\ norm_out[1].options = << <<>>, <<"B">> >>
    /\ norm_out[1].correct_answer = <<"Bar">>
(***************************************************************************)
(* The session (Spec): the tasks at a reset.                               *)
(***************************************************************************)
\* What a reset step does to the tasks: none is left in the queue, the one
\* that executes goes on executing, and the main script does not wait.
ResetOfTasks ==
    /\ \A i \in DOMAIN futures :
          /\ futures[i].state = "PENDING" => futures'[i].state = "CANCELLED"
          /\ futures[i].state # "PENDING" => futures'[i] = futures[i]
    /\ \A i \in DOMAIN futures' : futures'[i].state # "PENDING"
    /\ pc' = "idle"
\* The script of a task of an earlier run token is in no cache entry, its
\* task is not in the slot, and it is not the script played.
Discarded(i) ==
    /\ \A k \in DOMAIN prefetch_cache : prefetch_cache[k].by # i
    /\ prefetch_future # <<i>>
    /\ script_src.by # i
\* The exit button can be pressed, bounds of the model aside.
ResetReady ==
    /\ state = "GAME_LOOP" /\ pc = "idle"
    /\ script_run_token < MaxRunToken
    /\ Len(GameLoopPrologue(Coord, chunks, chunk_idx).futures) <= MaxTasks
\* C30: a reset cancels the task that waits in the queue, and a cancelled
\* task is never executed; a task that executes at the reset is left to
\* execute and to end, and its result is in no cache entry and is never
\* played; the reset step is enabled whatever the tasks do.
C30_ResetCancelsOrAbandons ==
    /\ [](\A i \in Queued(futures) : prefetch_future = <<i>>)
    /\ [][ResetStep => ResetOfTasks]_vars
    /\ [][\A i \in DOMAIN futures :
             futures[i].state = "CANCELLED" => futures'[i] = futures[i]]_vars
    /\ [](\A i \in Stale(futures, script_run_token) : Discarded(i))
    /\ [](ResetReady => ENABLED ExitClick)
\* A task that was executing at a reset has ended with a script after it.
C30_Witness ==
    /\ prefetch_future = <<>> /\ prefetch_cache = <<>>
    /\ \E i \in Stale(futures, script_run_token) :
          /\ futures[i].state = "FINISHED" /\ futures[i].outcome = "script"
          /\ futures[i].fin > futures[i].run
(***************************************************************************)
(* The session (Spec): the end of the document.                            *)
(***************************************************************************)
\* The press of the continue button, and the press that finishes the
\* script of the last chunk.
ContinueStep == state = "GAME_LOOP" /\ pc = "idle" /\ pc' = "run" /\ ~answered'
LastExhausted ==
    /\ script_items # <<>> /\ script_idx + 1 >= Len(script_items)
    /\ chunk_idx + 1 >= Len(chunks)
\* The ending dialogue is the script.
Ended == state = "GAME_LOOP" /\ script_items = EndingScript
\* The last chunk, or the ending after it, is what is played.
AtLastChunk == state = "GAME_LOOP" /\ chunks # <<>> /\ chunk_idx >= Len(chunks) - 1
NoLaunch == Len(futures') = Len(futures)
EndingStays ==
    /\ [][(ContinueStep /\ LastExhausted) => Ended' /\ script_idx' = 0]_vars
    /\ [][Ended => /\ NoLaunch
                   /\ pc' # "fg" /\ pc' # "take_wait"
                   /\ Ended' \/ ResetStep]_vars
    /\ [][(AtLastChunk /\ ~ResetStep) => NoLaunch /\ AtLastChunk']_vars
\* The statement as first made: at the ending no task is queued or
\* executing, so that no model call is made.
C31_NoTaskAtEnding ==
    /\ EndingStays
    /\ [](Ended => Outstanding(futures) = {})
\* C31: the continue button on the last item of the last chunk puts the
\* ending dialogue in place of the script and the session stays in
\* GAME_LOOP; from then on, whatever is pressed short of the exit, no task
\* is submitted and no foreground generation is started, and no task of the
\* current run token is queued or executing; while the last chunk is played
\* no task is submitted.  A task of an earlier run token that was executing
\* at a reset may still execute.
C31_NoGenerationForRunAtEnding ==
    /\ EndingStays
    /\ [](AtLastChunk =>
            Outstanding(futures) \cap CurrentRun(futures, script_run_token) = {})
\* The ending dialogue has been continued past once, after a document of
\* two chunks or more whose last chunk came from a prefetch task.
C31_Witness ==
    /\ Ended /\ pc = "idle" /\ Len(chunks) >= 2 /\ chunk_idx > Len(chunks)
    /\ \E i \in CurrentRun(futures, script_run_token) :
          futures[i].target = Len(chunks) - 1 /\ futures[i].state = "FINISHED"
(***************************************************************************)
(* The session (Spec): questions are answered before they are passed.      *)
(***************************************************************************)
CurrentItem == GetCurrentItem(script_items, script_idx)
\* Another item has become the current one.
NewItem == <<chunk_idx, script_idx, script_items>>' # <<chunk_idx, script_idx, script_items>>
\* C32: the continue button acts on a quiz or a choice only after one of
\* its options was pressed; answered is true only for a quiz or a choice
\* whose feedback is shown; and every step that makes another item the
\* current one, the first item of a loaded chunk and the ending included,
\* leaves answered false and no feedback.
C32_AnsweredBeforeAdvance ==
    /\ [][ContinueStep => (IsQa(CurrentItem) => answered)]_vars
    /\ [](answered => /\ state = "GAME_LOOP" /\ IsQa(CurrentItem)
                      /\ current_feedback # "None")
    /\ [][NewItem => ~answered' /\ current_feedback' = "None"]_vars
\* The quiz that opens the script of a chunk after the first has been
\* answered and passed: the dialogue after it is current.
C32_Witness ==
    /\ state = "GAME_LOOP" /\ pc = "idle" /\ chunk_idx >= 1
    /\ Len(script_items) = 2 /\ script_items[1].type = T_quiz
    /\ script_idx = 1 /\ ~answered /\ current_feedback = "None"
(***************************************************************************)
(* The session (Spec): the pending slot.                                   *)
(***************************************************************************)
SlotSet ==
    /\ prefetch_future # <<>>
    /\ prefetch_target_idx # <<>>
    /\ prefetch_task_run_token # <<>>
\* C33: the three fields of the pending slot are all None or all set; when
\* they are set the recorded token is script_run_token, which is 1 or more
\* then (so `or -1` leaves it as it is), and it is the token the task in
\* the slot was submitted under.
C33_SlotTokenIsCurrent ==
    /\ SlotEmpty \/ SlotSet
    /\ SlotSet =>
          /\ prefetch_task_run_token = <<script_run_token>>
          /\ script_run_token >= 1
          /\ TokenOr(prefetch_task_run_token) = script_run_token
          /\ SlotFuture(Coord).run = script_run_token
          /\ SlotFuture(Coord).target = prefetch_target_idx[1]
    /\ \A i \in DOMAIN futures : futures[i].run >= 1
\* A task is in the slot in the second run of the session, after a reset
\* has emptied the slot.
C33_Witness ==
    /\ SlotSet /\ script_run_token >= 3
    /\ SlotFuture(Coord).state = "RUNNING"
    /\ \E i \in Stale(futures, script_run_token) : futures[i].state = "CANCELLED"
\* C34: with chunks loaded, chunk_idx is between 0 and the number of
\* chunks, however often the continue button is pressed at the ending.
C34_ChunkIdxInRange ==
    chunks # <<>> => 0 <= chunk_idx /\ chunk_idx <= Len(chunks)
\* What holds: chunk_idx is never negative, and it is past the number of
\* chunks only at the ending dialogue.
ChunkIdxPastEndOnlyAtEnding ==
    /\ chunk_idx >= 0
    /\ (chunks # <<>> /\ chunk_idx >= Len(chunks)) => Ended
=============================================================================
